---- MODULE Spec2Model ----
(***************************************************************************)
(* The per-frame simulation of the 3D arena: App.tsx (input merge, attack   *)
(* counter) and ThreeScene (src/unnamed/part_000: player, enemy AI, smoke   *)
(* puff pool, orbit camera, animate loop).                                  *)
(*                                                                          *)
(* Numbers are fixed point:                                                 *)
(*   lengths     in 1/100 world unit     (mapRadius 50 -> 5000)             *)
(*   times       in milliseconds         (0.45 s -> 450)                    *)
(*   angles      in milliradians         (Math.PI -> 3142)                  *)
(*   unit vectors and joystick axes in 1/1000 (1.0 -> 1000)                 *)
(* Products are divided back with Div, which truncates toward zero.         *)
(***************************************************************************)
EXTENDS Integers, Sequences, FiniteSets, TLC

\* ------------------------------------------------------------------ bounds
MaxTicks == 3
MaxAttackTrigger == 2

\* ------------------------------------------------------- program constants
U == 100
K == 1000
PI_M == 3142
mapRadius == 5000
PLAYER_ATTACK_EFFECT_DURATION == 300
ENEMY_ROAM_TARGET_UPDATE_MIN_INTERVAL == 4000
ENEMY_ROAM_TARGET_UPDATE_MAX_INTERVAL == 8000
ENEMY_TARGET_REACH_THRESHOLD == 50
ENEMY_ATTACK_RANGE == 220
ENEMY_ATTACK_COOLDOWN == 2500
ENEMY_ATTACK_EFFECT_DURATION == 450
FLEE_DISTANCE_FROM_TOWER == 500
NUM_SMOKE_PUFFS == 15
SMOKE_PUFF_LIFETIME == 1200
SMOKE_PUFF_START_OPACITY == 600
SMOKE_PUFF_START_SCALE == 200
SMOKE_PUFF_END_SCALE == 1500

M2PI == 2 * PI_M
ENEMY_DETECTION_RANGE_SQR == ((mapRadius * 45) \div 100) * ((mapRadius * 45) \div 100)
ENEMY_ATTACK_RANGE_SQR == ENEMY_ATTACK_RANGE * ENEMY_ATTACK_RANGE
TOWER_AVOIDANCE_RANGE_ENEMY_SQR == ((mapRadius * 20) \div 100) * ((mapRadius * 20) \div 100)
ArenaLimit == (mapRadius * 98) \div 100

\* ------------------------------------------------------------- arithmetic
Abs(a) == IF a < 0 THEN -a ELSE a

Max(a, b) == IF a >= b THEN a ELSE b

Min(a, b) == IF a <= b THEN a ELSE b

\* Division truncating toward zero, as a float product cut to the grid.
Div(a, b) == IF a >= 0 THEN a \div b ELSE -((-a) \div b)

\* JavaScript's %: the remainder has the sign of the dividend.
JsMod(a, m) == IF a >= 0 THEN a % m ELSE -((-a) % m)

RECURSIVE SqrtNewton(_, _)
SqrtNewton(n, r) ==
    LET next == (r + (n \div r)) \div 2
    IN  IF next >= r THEN r ELSE SqrtNewton(n, next)

\* Math.sqrt on the grid: the largest r with r*r <= n (Newton's iteration
\* from a power of two above the root).
Sqrt(n) ==
    IF n = 0 THEN 0
    ELSE SqrtNewton(n, IF n < 256 THEN 16
                       ELSE IF n < 65536 THEN 256
                       ELSE IF n < 4194304 THEN 2048
                       ELSE IF n < 67108864 THEN 8192
                       ELSE 46341)

Vec(x, z) == [x |-> x, z |-> z]

\* THREE.Vector3 on the ground plane (y is 0 or the fixed base height).
LengthSq(v) == v.x * v.x + v.z * v.z

DistanceToSquared(a, b) == (a.x - b.x) * (a.x - b.x) + (a.z - b.z) * (a.z - b.z)

\* Vector3.normalize of a vector in length units: divides by length || 1,
\* the result in 1/1000.
Normalize(v) ==
    LET len == Sqrt(LengthSq(v))
    IN  IF len = 0 THEN Vec(0, 0)
        ELSE Vec(Div(v.x * K, len), Div(v.z * K, len))

\* Math.atan of a ratio t/1000 in [0,1], in milliradians
\* (t*pi/4 + 0.273*t*(1-t), within 0.004 rad).
AtanUnit(t) == Div(785 * t, K) + Div(273 * t * (K - t), K * K)

\* Math.atan2(x, z) in milliradians, in (-pi, pi].
Atan2(x, z) ==
    LET ax == Abs(x)
        az == Abs(z)
        base == IF ax = 0 /\ az = 0 THEN 0
                ELSE IF ax <= az THEN AtanUnit(Div(ax * K, az))
                ELSE (PI_M \div 2) - AtanUnit(Div(az * K, ax))
        pos == IF z >= 0 THEN base ELSE PI_M - base
    IN  IF ax = 0 /\ az = 0 THEN 0
        ELSE IF x >= 0 THEN pos ELSE -pos

\* Math.sin of an angle in [0, pi] milliradians, in 1/1000 (Bhaskara's formula,
\* within 0.002).
SinHalf(a) ==
    LET p == a * (PI_M - a)
    IN  Div(16 * p, Div(5 * PI_M * PI_M - 4 * p, K))

Sin(a) ==
    LET r == ((a % M2PI) + M2PI) % M2PI
    IN  IF r <= PI_M THEN SinHalf(r) ELSE -SinHalf(r - PI_M)

Cos(a) == Sin(a + (PI_M \div 2))

shortestAngleDiff(current, target) ==
    LET d == JsMod(target - current, M2PI)
    IN  IF d > PI_M THEN d - M2PI
        ELSE IF d < -PI_M THEN d + M2PI
        ELSE d

\* ---------------------------------------------------------- scene layout
CHARACTER_BASE_Y == 80
MIN_CAMERA_Y_POSITION == 50
moveSpeed == 400
ENEMY_MOVE_SPEED == 320
cameraRadius == 1800

rotationSpeed == M2PI
ENEMY_ROTATION_SPEED == (PI_M * 18) \div 10

blueFountainPosition == Vec(0, -((mapRadius * 88) \div 100))
redFountainPosition == Vec(0, (mapRadius * 88) \div 100)

\* towerDefinitions.blue, the list copied into blueTowersRef.
blueTowers ==
    << Vec(0, -((mapRadius * 85) \div 100)),
       Vec(0, -((mapRadius * 50) \div 100)),
       Vec(-((mapRadius * 45) \div 100), -((mapRadius * 20) \div 100)),
       Vec((mapRadius * 45) \div 100, -((mapRadius * 20) \div 100)) >>

initialJoystickData == [x |-> 0, y |-> 0, active |-> FALSE]

\* A MeshStandardMaterial's tint: the colour is originalColor lerped toward
\* `toward` by factor/1000 (factor 0 is originalColor itself).
Tint(toward, factor) ==
    IF factor = 0 THEN [toward |-> "none", factor |-> 0]
    ELSE [toward |-> toward, factor |-> factor]

originalColor == Tint("none", 0)

Material(color, emissive, intensity) ==
    [color |-> color, emissive |-> emissive, emissiveIntensity |-> intensity]

\* createCharacterMesh: emissive and emissiveIntensity keep three.js defaults.
createCharacterMaterial == Material(originalColor, "000000", K)

\* ------------------------------------------------------- getRandomRoamTarget
\* (Math.random() - 0.5) * 2 * boundary, for Math.random() = r/1000.
RoamCoordinate(r, boundary) == Div((r - 500) * 2 * boundary, K)

\* (Math.random() - 0.5) * boundary, the fallback point's coordinate.
FallbackCoordinate(r, boundary) == Div((r - 500) * boundary, K)

\* A rejection test without the red fountain's circle.
RoamAttemptRejectedBlueOnly(targetPos, currentPos) ==
    LET boundary == (mapRadius * 95) \div 100
        blueBaseAvoidRadius == (mapRadius * 30) \div 100
    IN  \/ LengthSq(targetPos) > boundary * boundary
        \/ /\ DistanceToSquared(targetPos, blueFountainPosition)
                 < blueBaseAvoidRadius * blueBaseAvoidRadius
           /\ currentPos.z > 0

\* One pass of the rejection loop: TRUE when the attempt is skipped (continue).
RoamAttemptRejected(targetPos, currentPos) ==
    LET boundary == (mapRadius * 95) \div 100
        blueBaseAvoidRadius == (mapRadius * 30) \div 100
        redBaseAvoidRadius == (mapRadius * 20) \div 100
    IN  \/ LengthSq(targetPos) > boundary * boundary
        \/ /\ DistanceToSquared(targetPos, blueFountainPosition)
                 < blueBaseAvoidRadius * blueBaseAvoidRadius
           /\ currentPos.z > 0
        \/ DistanceToSquared(targetPos, redFountainPosition)
               < redBaseAvoidRadius * redBaseAvoidRadius

RECURSIVE RoamAttempt(_, _, _, _)
RoamAttempt(i, draws, fallback, currentPos) ==
    LET boundary == (mapRadius * 95) \div 100
    IN  IF i > 10
        THEN Vec(FallbackCoordinate(fallback[1], boundary),
                 FallbackCoordinate(fallback[2], boundary))
        ELSE LET targetPos == Vec(RoamCoordinate(draws[i][1], boundary),
                                  RoamCoordinate(draws[i][2], boundary))
             IN  IF RoamAttemptRejected(targetPos, currentPos)
                 THEN RoamAttempt(i + 1, draws, fallback, currentPos)
                 ELSE targetPos

\* draws: the ten attempts' pairs of Math.random() values; fallback: the pair
\* drawn after the loop.
getRandomRoamTarget(draws, fallback, currentPos) ==
    RoamAttempt(1, draws, fallback, currentPos)

\* MIN + Math.random() * (MAX - MIN)
RandomRoamTimer(r) ==
    ENEMY_ROAM_TARGET_UPDATE_MIN_INTERVAL
      + Div(r * (ENEMY_ROAM_TARGET_UPDATE_MAX_INTERVAL
                   - ENEMY_ROAM_TARGET_UPDATE_MIN_INTERVAL), K)

\* ------------------------------------------------------------ emitSmokePuffs
\* An ActiveSmokePuff: the pool mesh (its index in smokePuffsPoolRef), the
\* remaining and the nominal lifetime, the position it was emitted at (the
\* random jitter and velocity of the sprite are not tracked), and the
\* opacity and scale of the mesh in thousandths.
Puff(mesh, lifetime, origin) ==
    [mesh |-> mesh, lifetime |-> lifetime,
     initialLifetime |-> SMOKE_PUFF_LIFETIME, origin |-> origin,
     opacity |-> SMOKE_PUFF_START_OPACITY, scale |-> SMOKE_PUFF_START_SCALE]

\* A pool scan that looks only at the puff emitted last.
IsActiveLastOnly(active, mesh) ==
    Len(active) > 0 /\ active[Len(active)].mesh = mesh

IsActive(active, mesh) == \E i \in 1..Len(active) : active[i].mesh = mesh

\* SMOKE_PUFF_LIFETIME * (0.8 + Math.random() * 0.4)
SeedLifetime(r) == Div(SMOKE_PUFF_LIFETIME * (800 + Div(r * 400, K)), K)

\* A count that leaves the countMultiplier out.
PuffsToEmitUnscaled(r, mult10) == 5 + ((r * 4) \div K)

\* Math.floor((5 + Math.floor(Math.random() * 4)) * countMultiplier), the
\* multiplier in tenths.
PuffsToEmit(r, mult10) == (((5 + ((r * 4) \div K)) * mult10) \div 10)

RECURSIVE EmitLoop(_, _, _, _, _, _)
EmitLoop(mesh, puffsEmitted, puffsToEmit, active, position, lifeRands) ==
    IF mesh > NUM_SMOKE_PUFFS \/ puffsEmitted >= puffsToEmit THEN active
    ELSE IF IsActive(active, mesh)
         THEN EmitLoop(mesh + 1, puffsEmitted, puffsToEmit, active, position, lifeRands)
         ELSE EmitLoop(mesh + 1, puffsEmitted + 1, puffsToEmit,
                       Append(active,
                              Puff(mesh,
                                   SeedLifetime(lifeRands[(puffsEmitted % Len(lifeRands)) + 1]),
                                   position)),
                       position, lifeRands)

\* rnd.count: the Math.random() of the base count; rnd.life: the lifetimes'
\* Math.random() values, used in turn.
emitSmokePuffs(active, position, mult10, rnd) ==
    EmitLoop(1, 0, PuffsToEmit(rnd.count, mult10), active, position, rnd.life)

\* const t = 1 - (puff.lifetime / puff.initialLifetime), in thousandths
PuffFraction(lifetime, initialLifetime) == K - Div(lifetime * K, initialLifetime)

\* SMOKE_PUFF_START_OPACITY * (1 - t)
PuffOpacity(t) == Div(SMOKE_PUFF_START_OPACITY * (K - t), K)

\* THREE.MathUtils.lerp(SMOKE_PUFF_START_SCALE, SMOKE_PUFF_END_SCALE, t)
PuffScale(t) ==
    SMOKE_PUFF_START_SCALE + Div((SMOKE_PUFF_END_SCALE - SMOKE_PUFF_START_SCALE) * t, K)

\* An update that ages the puffs and removes none.
UpdateSmokePuffsKeepsAll(active, delta) ==
    [i \in 1..Len(active) |-> [active[i] EXCEPT !.lifetime = @ - delta]]

\* The filter of the Smoke Puffs Update.
RECURSIVE UpdateSmokePuffs(_, _)
UpdateSmokePuffs(active, delta) ==
    IF active = << >> THEN << >>
    ELSE LET puff == Head(active)
             lifetime == puff.lifetime - delta
             t == PuffFraction(lifetime, puff.initialLifetime)
             rest == UpdateSmokePuffs(Tail(active), delta)
         IN  IF lifetime <= 0 THEN rest
             ELSE << [puff EXCEPT !.lifetime = lifetime,
                                  !.opacity = PuffOpacity(t),
                                  !.scale = PuffScale(t)] >> \o rest

\* ------------------------------------------------------ animate: the player
OutOfArena(position) == Abs(position.x) + Abs(position.z) > ArenaLimit

\* camera.getWorldDirection with y zeroed and renormalised, for a camera
\* whose last lookAt was taken at azimuth `heading`.
CameraWorldDirection(heading) == Normalize(Vec(-Sin(heading), -Cos(heading)))

Scale(v, k) == Vec(Div(v.x * k, K), Div(v.z * k, K))

\* The move vector and target rotation of the Player Logic block.
PlayerMove(joyInput, rotationY, heading) ==
    IF joyInput.active
    THEN LET dir == CameraWorldDirection(heading)
             forwardAmount == -joyInput.y
             strafeAmount == -joyInput.x
             moveForward == Scale(dir, forwardAmount)
             cameraRight == Normalize(Vec(dir.z, -dir.x))
             moveStrafe == Scale(cameraRight, strafeAmount)
             sum == Vec(moveForward.x + moveStrafe.x, moveForward.z + moveStrafe.z)
         IN  IF LengthSq(sum) > 10000
             THEN LET n == Normalize(sum)
                  IN  [moveVector |-> n, targetRotation |-> Atan2(n.x, n.z)]
             ELSE [moveVector |-> sum, targetRotation |-> rotationY]
    ELSE [moveVector |-> Vec(0, 0), targetRotation |-> rotationY]

\* rotationY += shortestAngleDiff(rotationY, target) * speed * delta
Turn(rotationY, targetRotation, speed, delta) ==
    rotationY + Div(shortestAngleDiff(rotationY, targetRotation) * Div(speed * delta, K), K)

\* position.add(direction * actualMoveSpeed), actualMoveSpeed = speed * delta
Advance(position, direction, speed, delta) ==
    LET actualMoveSpeed == Div(speed * delta, K)
    IN  Vec(position.x + Div(direction.x * actualMoveSpeed, K),
            position.z + Div(direction.z * actualMoveSpeed, K))

\* A boundary test that is never taken.
RollbackNever(prev, tentative) == tentative

\* A boundary test that restores z only.
RollbackPerAxis(prev, tentative) ==
    IF OutOfArena(tentative) THEN Vec(tentative.x, prev.z) ELSE tentative

\* The boundary test of the player and of the enemy: the tentative position
\* is kept unless it is out of the arena.
Rollback(prev, tentative) == IF OutOfArena(tentative) THEN prev ELSE tentative

\* A walk phase that pauses instead of resetting.
WalkPhasePaused(walk, joyInput, delta) ==
    IF joyInput.active THEN walk + delta * 8 ELSE walk

\* playerWalkAnimationTimeRef: += delta * 8 with active input, else 0.
WalkPhase(walk, joyInput, delta) ==
    IF joyInput.active THEN walk + delta * 8 ELSE 0

\* A flash timer that restarts in every frame.
FlashTimerRestarts(fx, delta) == delta

\* playerAttackEffectTimerRef.current += delta
FlashTimer(fx, delta) == fx.timer + delta

PlayerLogic(pl, walk, fx, joyInput, heading, delta) ==
    LET mv == PlayerMove(joyInput, pl.rotationY, heading)
        walk1 == WalkPhase(walk, joyInput, delta)
        rot == Turn(pl.rotationY, mv.targetRotation, rotationSpeed, delta)
        prevPlayerPos == pl.position
        tentative == Advance(pl.position, mv.moveVector, moveSpeed, delta)
        pos == Rollback(prevPlayerPos, tentative)
        timer == FlashTimer(fx, delta)
        expired == fx.active /\ timer >= PLAYER_ATTACK_EFFECT_DURATION
        fx1 == IF ~fx.active THEN fx
               ELSE IF expired THEN [active |-> FALSE, timer |-> 0]
               ELSE [active |-> TRUE, timer |-> timer]
        mat == IF expired THEN Material(originalColor, "000000", 0) ELSE pl.material
    IN  [player |-> [position |-> pos, rotationY |-> rot, material |-> mat],
         walk |-> walk1, fx |-> fx1,
         prev |-> prevPlayerPos, tentative |-> tentative]

\* Timers decremented without Math.max(0, ...).
EnemyTimersUnclamped(en, delta) ==
    LET cooldown == en.attackCooldownTimer - delta
        roam == en.roamTimer - delta
        timer == en.attackEffectTimer + delta
        lerpFactor == Div(Sin(Div(timer * PI_M, ENEMY_ATTACK_EFFECT_DURATION)) * 7, 10)
    IN  IF ~en.isAttackingVisual
        THEN [en EXCEPT !.attackCooldownTimer = cooldown, !.roamTimer = roam]
        ELSE IF timer >= ENEMY_ATTACK_EFFECT_DURATION
        THEN [en EXCEPT !.attackCooldownTimer = cooldown, !.roamTimer = roam,
                        !.isAttackingVisual = FALSE, !.attackEffectTimer = 0,
                        !.material = Material(originalColor, "000000", 0)]
        ELSE [en EXCEPT !.attackCooldownTimer = cooldown, !.roamTimer = roam,
                        !.attackEffectTimer = timer,
                        !.material = Material(Tint("ffcc66", lerpFactor), "ffaa33",
                                              Div(lerpFactor * 15, 10))]

\* An expiry that clears the flag and leaves the material as it is.
EnemyTimersKeepMaterial(en, delta) ==
    LET cooldown == Max(0, en.attackCooldownTimer - delta)
        roam == Max(0, en.roamTimer - delta)
        timer == en.attackEffectTimer + delta
        lerpFactor == Div(Sin(Div(timer * PI_M, ENEMY_ATTACK_EFFECT_DURATION)) * 7, 10)
    IN  IF ~en.isAttackingVisual
        THEN [en EXCEPT !.attackCooldownTimer = cooldown, !.roamTimer = roam]
        ELSE IF timer >= ENEMY_ATTACK_EFFECT_DURATION
        THEN [en EXCEPT !.attackCooldownTimer = cooldown, !.roamTimer = roam,
                        !.isAttackingVisual = FALSE, !.attackEffectTimer = 0]
        ELSE [en EXCEPT !.attackCooldownTimer = cooldown, !.roamTimer = roam,
                        !.attackEffectTimer = timer,
                        !.material = Material(Tint("ffcc66", lerpFactor), "ffaa33",
                                              Div(lerpFactor * 15, 10))]

\* ------------------------------------------------------- animate: the enemy
\* Timers and the attack visual (the first block of the Enemy Logic).
EnemyTimers(en, delta) ==
    LET cooldown == Max(0, en.attackCooldownTimer - delta)
        roam == Max(0, en.roamTimer - delta)
        timer == en.attackEffectTimer + delta
        lerpFactor == Div(Sin(Div(timer * PI_M, ENEMY_ATTACK_EFFECT_DURATION)) * 7, 10)
    IN  IF ~en.isAttackingVisual
        THEN [en EXCEPT !.attackCooldownTimer = cooldown, !.roamTimer = roam]
        ELSE IF timer >= ENEMY_ATTACK_EFFECT_DURATION
        THEN [en EXCEPT !.attackCooldownTimer = cooldown, !.roamTimer = roam,
                        !.isAttackingVisual = FALSE, !.attackEffectTimer = 0,
                        !.material = Material(originalColor, "000000", 0)]
        ELSE [en EXCEPT !.attackCooldownTimer = cooldown, !.roamTimer = roam,
                        !.attackEffectTimer = timer,
                        !.material = Material(Tint("ffcc66", lerpFactor), "ffaa33",
                                              Div(lerpFactor * 15, 10))]

\* The closest hostile tower: the first of the least squared distance.
RECURSIVE ClosestTower(_, _, _)
ClosestTower(i, enemyPos, best) ==
    IF i > Len(blueTowers) THEN best
    ELSE LET distSq == DistanceToSquared(enemyPos, blueTowers[i])
         IN  IF best.index = 0 \/ distSq < best.distSq
             THEN ClosestTower(i + 1, enemyPos, [index |-> i, distSq |-> distSq])
             ELSE ClosestTower(i + 1, enemyPos, best)

TowerThreat(enemyPos) ==
    LET best == ClosestTower(1, enemyPos, [index |-> 0, distSq |-> 0])
    IN  IF best.index # 0 /\ best.distSq < TOWER_AVOIDANCE_RANGE_ENEMY_SQR
        THEN best.index ELSE 0

\* A flee target computed with the subtraction reversed (towards the tower).
FleeTargetToward(enemyPos, towerPos) ==
    LET directionToTower == Normalize(Vec(towerPos.x - enemyPos.x, towerPos.z - enemyPos.z))
    IN  Vec(enemyPos.x + Div(directionToTower.x * FLEE_DISTANCE_FROM_TOWER, K),
            enemyPos.z + Div(directionToTower.z * FLEE_DISTANCE_FROM_TOWER, K))

\* enemyPos + FLEE_DISTANCE_FROM_TOWER * normalize(enemyPos - towerPos)
FleeTarget(enemyPos, towerPos) ==
    LET directionAwayFromTower == Normalize(Vec(enemyPos.x - towerPos.x, enemyPos.z - towerPos.z))
    IN  Vec(enemyPos.x + Div(directionAwayFromTower.x * FLEE_DISTANCE_FROM_TOWER, K),
            enemyPos.z + Div(directionAwayFromTower.z * FLEE_DISTANCE_FROM_TOWER, K))

\* An attack branch that does not wait for the cooldown.
AttackStartsUncooled(en, distanceToPlayerSq) ==
    /\ distanceToPlayerSq < ENEMY_ATTACK_RANGE_SQR
    /\ ~en.isAttackingVisual

\* TRUE when the Attack Player branch is taken.
AttackStarts(en, distanceToPlayerSq) ==
    /\ distanceToPlayerSq < ENEMY_ATTACK_RANGE_SQR
    /\ en.attackCooldownTimer <= 0
    /\ ~en.isAttackingVisual

\* A roaming enemy that draws a new target in every frame.
RoamRetargetDueAlways(en) == TRUE

\* The Roam branch's test for a roaming enemy: the roam timer has run out or
\* the current target is within the reach threshold.
RoamRetargetDue(en) ==
    \/ en.roamTimer <= 0
    \/ DistanceToSquared(en.position, en.currentTarget)
          < ENEMY_TARGET_REACH_THRESHOLD * ENEMY_TARGET_REACH_THRESHOLD

\* An attack-visual completion that leaves the re-evaluation to a later frame.
VisualCompletionDeferred(first, visual, playerPos) == first

\* A completion that re-evaluates while the visual is still playing.
VisualCompletionEager(first, visual, playerPos) ==
    IF first.newAiState = "ATTACKING_PLAYER"
    THEN IF first.distanceToPlayerSq < ENEMY_DETECTION_RANGE_SQR
         THEN [first EXCEPT !.newAiState = "CHASING_PLAYER", !.newTarget = playerPos]
         ELSE [first EXCEPT !.newAiState = "ROAMING", !.forceNewRoamTarget = TRUE]
    ELSE first

\* The block after the state checks: with the state still ATTACKING_PLAYER
\* and the visual finished, chase the player if detected, else roam anew.
VisualCompletion(first, visual, playerPos) ==
    IF first.newAiState = "ATTACKING_PLAYER" /\ ~visual
    THEN IF first.distanceToPlayerSq < ENEMY_DETECTION_RANGE_SQR
         THEN [first EXCEPT !.newAiState = "CHASING_PLAYER", !.newTarget = playerPos]
         ELSE [first EXCEPT !.newAiState = "ROAMING", !.forceNewRoamTarget = TRUE]
    ELSE first

\* The state evaluation of the Enemy Logic, from the tower check to the
\* attack-visual completion: the new state and target, whether a fresh roam
\* target is forced, whether an attack starts.  `en` is the enemy after
\* EnemyTimers.
EnemyDecision(en, playerPos) ==
    LET enemyPos == en.position
        distanceToPlayerSq == DistanceToSquared(enemyPos, playerPos)
        tower == TowerThreat(enemyPos)
        base == [newAiState |-> en.aiState, newTarget |-> en.currentTarget,
                 forceNewRoamTarget |-> FALSE, attack |-> FALSE, tower |-> tower,
                 distanceToPlayerSq |-> distanceToPlayerSq]
        wasFleeing == en.aiState = "FLEEING_TOWER"
        s1 == IF wasFleeing THEN "ROAMING" ELSE en.aiState
        attack == AttackStarts(en, distanceToPlayerSq)
        first ==
            IF tower # 0
            THEN [base EXCEPT !.newAiState = "FLEEING_TOWER",
                              !.newTarget = FleeTarget(enemyPos, blueTowers[tower])]
            ELSE IF attack
            THEN [base EXCEPT !.newAiState = "ATTACKING_PLAYER", !.attack = TRUE,
                              !.newTarget = playerPos, !.forceNewRoamTarget = wasFleeing]
            ELSE IF s1 # "ATTACKING_PLAYER" /\ distanceToPlayerSq < ENEMY_DETECTION_RANGE_SQR
            THEN [base EXCEPT !.newAiState = "CHASING_PLAYER", !.newTarget = playerPos,
                              !.forceNewRoamTarget = wasFleeing]
            ELSE IF s1 = "CHASING_PLAYER"
            THEN [base EXCEPT !.newAiState = "ROAMING", !.forceNewRoamTarget = TRUE]
            ELSE IF s1 = "ROAMING"
            THEN [base EXCEPT !.newAiState = "ROAMING",
                      !.forceNewRoamTarget = wasFleeing \/ RoamRetargetDue(en)]
            ELSE [base EXCEPT !.newAiState = s1, !.forceNewRoamTarget = wasFleeing]
        visual == IF first.attack THEN TRUE ELSE en.isAttackingVisual
    IN  VisualCompletion(first, visual, playerPos)

\* An attack start that leaves the cooldown as it is.
EnemyCommitNoCooldown(en, d, roamRnd) ==
    LET en1 == IF d.attack
               THEN [en EXCEPT !.isAttackingVisual = TRUE, !.attackEffectTimer = 0]
               ELSE en
    IN  IF d.forceNewRoamTarget
        THEN [en1 EXCEPT !.aiState = d.newAiState,
                         !.currentTarget = getRandomRoamTarget(roamRnd.draws, roamRnd.fallback, en.position),
                         !.roamTimer = RandomRoamTimer(roamRnd.timer)]
        ELSE [en1 EXCEPT !.aiState = d.newAiState, !.currentTarget = d.newTarget]

\* A commit that draws a roam target only for an enemy that ends up roaming.
EnemyCommitRoamingOnly(en, d, roamRnd) ==
    LET en1 == IF d.attack
               THEN [en EXCEPT !.isAttackingVisual = TRUE, !.attackEffectTimer = 0,
                               !.attackCooldownTimer = ENEMY_ATTACK_COOLDOWN]
               ELSE en
    IN  IF d.forceNewRoamTarget /\ d.newAiState = "ROAMING"
        THEN [en1 EXCEPT !.aiState = d.newAiState,
                         !.currentTarget = getRandomRoamTarget(roamRnd.draws, roamRnd.fallback, en.position),
                         !.roamTimer = RandomRoamTimer(roamRnd.timer)]
        ELSE [en1 EXCEPT !.aiState = d.newAiState, !.currentTarget = d.newTarget]

\* The attack start's writes and the state commit: enemy.aiState, the target
\* (a fresh roam target when forced) and the roam timer.
EnemyCommit(en, d, roamRnd) ==
    LET en1 == IF d.attack
               THEN [en EXCEPT !.isAttackingVisual = TRUE, !.attackEffectTimer = 0,
                               !.attackCooldownTimer = ENEMY_ATTACK_COOLDOWN]
               ELSE en
    IN  IF d.forceNewRoamTarget
        THEN [en1 EXCEPT !.aiState = d.newAiState,
                         !.currentTarget = getRandomRoamTarget(roamRnd.draws, roamRnd.fallback, en.position),
                         !.roamTimer = RandomRoamTimer(roamRnd.timer)]
        ELSE [en1 EXCEPT !.aiState = d.newAiState, !.currentTarget = d.newTarget]

\* A movement block that does not hold the enemy during the attack visual.
EnemyMovementUnheld(en, delta) ==
    LET directionToTarget == Vec(en.currentTarget.x - en.position.x,
                                 en.currentTarget.z - en.position.z)
    IN  IF LengthSq(directionToTarget) > 100
        THEN LET dir == Normalize(directionToTarget)
                 targetRotation == Atan2(dir.x, dir.z)
                 tentative == Advance(en.position, dir, ENEMY_MOVE_SPEED, delta)
                 out == OutOfArena(tentative)
             IN  [en EXCEPT
                    !.rotationY = Turn(en.rotationY, targetRotation, ENEMY_ROTATION_SPEED, delta),
                    !.position = Rollback(en.position, tentative),
                    !.roamTimer = IF out /\ en.aiState # "FLEEING_TOWER" THEN 0 ELSE @,
                    !.isMoving = TRUE,
                    !.walkAnimationTime = @ + delta * 7]
        ELSE [en EXCEPT
                !.isMoving = FALSE,
                !.walkAnimationTime = 0,
                !.roamTimer = IF en.aiState \in {"ROAMING", "FLEEING_TOWER"} THEN 0 ELSE @]

\* Movement and Animation based on determined state and target.
EnemyMovement(en, delta) ==
    IF en.aiState # "ATTACKING_PLAYER" \/ ~en.isAttackingVisual
    THEN LET directionToTarget == Vec(en.currentTarget.x - en.position.x,
                                      en.currentTarget.z - en.position.z)
         IN  IF LengthSq(directionToTarget) > 100
             THEN LET dir == Normalize(directionToTarget)
                      targetRotation == Atan2(dir.x, dir.z)
                      prevEnemyPos == en.position
                      tentative == Advance(en.position, dir, ENEMY_MOVE_SPEED, delta)
                      out == OutOfArena(tentative)
                  IN  [en EXCEPT
                         !.rotationY = Turn(en.rotationY, targetRotation, ENEMY_ROTATION_SPEED, delta),
                         !.position = Rollback(prevEnemyPos, tentative),
                         !.roamTimer = IF out /\ en.aiState # "FLEEING_TOWER" THEN 0 ELSE @,
                         !.isMoving = TRUE,
                         !.walkAnimationTime = @ + delta * 7]
             ELSE [en EXCEPT
                     !.isMoving = FALSE,
                     !.walkAnimationTime = 0,
                     !.roamTimer = IF en.aiState \in {"ROAMING", "FLEEING_TOWER"} THEN 0 ELSE @]
    ELSE [en EXCEPT !.isMoving = FALSE, !.walkAnimationTime = 0]

\* The tentative position of the movement block, or the position itself
\* when the block does not move the enemy.
EnemyTentative(en, delta) ==
    LET directionToTarget == Vec(en.currentTarget.x - en.position.x,
                                 en.currentTarget.z - en.position.z)
    IN  IF (en.aiState # "ATTACKING_PLAYER" \/ ~en.isAttackingVisual)
           /\ LengthSq(directionToTarget) > 100
        THEN Advance(en.position, Normalize(directionToTarget), ENEMY_MOVE_SPEED, delta)
        ELSE en.position

\* ------------------------------------------------------ animate: the camera
Point(x, y, z) == [x |-> x, y |-> y, z |-> z]

\* The Camera Update: the eye on the sphere around cameraTargetRef.
CameraEye(target, phi, theta) ==
    Point(target.x + Div(cameraRadius * Div(Sin(phi) * Sin(theta), K), K),
          target.y + Div(cameraRadius * Cos(phi), K),
          target.z + Div(cameraRadius * Div(Sin(phi) * Cos(theta), K), K))

\* Math.acos of c/1000, in milliradians.
Acos(c) == Atan2(Sqrt(K * K - c * c), c)

Clamp(v, lo, hi) == Max(lo, Min(hi, v))

\* A ground limit that falls back to pi/2 whenever the ratio is out of
\* range or the radius too small, and keeps the arccosine above MIN_PHI_ABS.
MaxPhiForGroundHalfPi(targetYForCamera, radius) ==
    LET MAX_PHI_ABS == PI_M - 100
        rise == MIN_CAMERA_Y_POSITION - targetYForCamera
    IN  IF radius > 0 /\ rise >= -radius /\ rise <= radius
        THEN Clamp(Acos(Div(rise * K, radius)), 100, MAX_PHI_ABS)
        ELSE PI_M \div 2

\* maxPhiForGround of onWindowPointerMoveCallback.  A radius in hundredths is
\* above 0.001 when it is above 0; cosVal is compared with -1 and 1 before it
\* is rounded to thousandths.
MaxPhiForGround(targetYForCamera, radius) ==
    LET MAX_PHI_ABS == PI_M - 100
        rise == MIN_CAMERA_Y_POSITION - targetYForCamera
    IN  IF radius > 0
        THEN IF rise >= -radius /\ rise <= radius
             THEN Min(MAX_PHI_ABS, Acos(Div(rise * K, radius)))
             ELSE IF rise > radius THEN Min(MAX_PHI_ABS, PI_M \div 2)
             ELSE MAX_PHI_ABS
        ELSE MAX_PHI_ABS

\* --------------------------------------------------------------- App.tsx
\* updateKeyboardMovementState, for the set of pressed keys.
updateKeyboardMovementState(pressedKeys) ==
    LET y0 == IF "s" \in pressedKeys THEN 1 ELSE IF "w" \in pressedKeys THEN -1 ELSE 0
        x0 == IF "d" \in pressedKeys THEN 1 ELSE IF "a" \in pressedKeys THEN -1 ELSE 0
        active == pressedKeys \cap {"w", "a", "s", "d"} # {}
        length == Sqrt((x0 * x0 + y0 * y0) * K * K)
    IN  IF x0 # 0 /\ y0 # 0
        THEN [x |-> Div(x0 * K * K, length), y |-> Div(y0 * K * K, length), active |-> active]
        ELSE [x |-> x0 * K, y |-> y0 * K, active |-> active]

\* A merge that tests the joystick first.
effectiveJoystickDataAnalogFirst(keyboard, joystick) ==
    IF joystick.active THEN joystick
    ELSE IF keyboard.active THEN keyboard
    ELSE initialJoystickData

\* Combine keyboard and joystick inputs.
effectiveJoystickData(keyboard, joystick) ==
    IF keyboard.active THEN keyboard
    ELSE IF joystick.active THEN joystick
    ELSE initialJoystickData

\* A knob that scales the offset without clamping it.
updateKnobPositionUnclamped(px, py) ==
    LET maxOffset == (120 - 60) \div 2
    IN  [x |-> Div(px * K, maxOffset), y |-> Div(py * K, maxOffset), active |-> TRUE]

\* The smallest r with r*r >= n: a length rounded up on the grid.
SqrtUp(n) == IF Sqrt(n) * Sqrt(n) = n THEN Sqrt(n) ELSE Sqrt(n) + 1

\* updateKnobPosition's onMove argument, for a pointer at (px, py) pixels from
\* the centre of the base (size 120, stickSize 60).  The distance is kept in
\* hundredths of a pixel and rounded up, so that no rounding makes the
\* clamped offset longer than the computed one.
updateKnobPosition(px, py) ==
    LET maxOffset == (120 - 60) \div 2
        distance == SqrtUp((px * px + py * py) * U * U)
        kx == IF distance > maxOffset * U
              THEN Div(px * maxOffset * K * U, distance) ELSE px * K
        ky == IF distance > maxOffset * U
              THEN Div(py * maxOffset * K * U, distance) ELSE py * K
    IN  [x |-> Div(kx, maxOffset), y |-> Div(ky, maxOffset), active |-> TRUE]

\* ------------------------------------------------------------------ inputs
\* Elapsed times clockRef.getDelta() returns, in ms.
Deltas == {0, 400, 11000, 21500}

\* Frames of a running display.
ShortDeltas == {400}

\* A frame of a running display and one after the page was in the background.
AttackDeltas == {400, 21500}

\* Math.random() pairs of an attempt: the map centre, beyond the diamond,
\* beside a tower, outside the sampling circle, inside the blue fountain's
\* circle, inside the red fountain's circle, and on the circles' far sides.
TargetPoints == {<<500, 500>>, <<847, 847>>, <<737, 395>>, <<950, 950>>,
                 <<500, 100>>, <<500, 900>>, <<600, 350>>, <<420, 820>>}

\* An attempt taken first, tenth (after nine rejected ones) or not at all.
TargetDraws ==
    {[i \in 1..10 |-> IF i < n THEN <<950, 950>> ELSE pt] :
        pt \in TargetPoints, n \in {1, 10}}

TargetFallbacks == {<<400, 600>>, <<0, 999>>}

\* Positions of the enemy on either side of the line z = 0, and on it.
TargetPositions == {redFountainPosition, Vec(0, 1), Vec(0, 0), Vec(0, -2480),
                    Vec(2608, -1321)}

\* Frames of which two or three make up the flash duration.
FlashDeltas == {100, 200}

\* Frames on an enemy's way: a running display, and a pause after which the
\* enemy arrives at the map centre from its fountain.
RoamDeltas == {400, 13750}

\* Pairs of Math.random() values (x, z) of a roam attempt, in 1/1000: the
\* map centre, a point beyond the arena's diamond, a point beside the blue
\* right tower, and a point outside the sampling circle (always rejected).
RoamPoints == {<<500, 500>>, <<847, 847>>, <<737, 395>>, <<950, 950>>}

RoamDraws == {[i \in 1..10 |-> pt] : pt \in RoamPoints}

FallbackDraws == {<<400, 600>>}

RoamTimerDraws == {500}

RoamRnds == [draws : RoamDraws, fallback : FallbackDraws, timer : RoamTimerDraws]

EmitRnds == {[count |-> 0, life |-> <<0>>], [count |-> 999, life |-> <<0, 999>>]}

NoRnd == [none |-> TRUE]

MoveKeys == {"w", "s"}

\* Pointer offsets from the joystick's centre, in pixels.
KnobOffsets == {<<30, 40>>}
\* the four movement keys, and pointer positions inside, on and beyond the
\* knob's range of 30 pixels
AllMoveKeys == {"w", "a", "s", "d"}
PadOffsets == {<<0, 0>>, <<10, -20>>, <<-30, 0>>, <<0, 31>>, <<30, 40>>, <<30, 41>>,
               <<100, -100>>, <<-7, 300>>}

PointerIds == {1, 2}

PointerXs == {0, 314}

PointerYs == {0}
\* orbit radii and target heights for the ground limit, in hundredths
GroundRadii == {0, 1, 10, 100, 1800, 5000}
GroundHeights == {-5000, -1750, -50, 49, 50, 80, 130, 1850, 1851, 6000}
\* clientX and clientY of a drag across the canvas
DragXs == {0, 100}
DragYs == {0, 200}

\* ------------------------------------------------------------------- state
VARIABLES
    pressedKeys,              \* App: the movement effect's pressedKeys set
    keyboardMovement,         \* App: useState keyboardMovement
    joystickIsDragging,       \* Joystick: useState isDragging
    joystickData,             \* App: useState joystickData
    attackTrigger,            \* App: useState attackTrigger
    isAttackButtonPressed,    \* App: useState isAttackButtonPressed
    isAttackButtonPressedRef, \* App: the ref the key listeners read
    spaceHeld,                \* the keyboard: the spacebar is down
    spaceAttacks,             \* history: attacks of the current spacebar press
    joystickOutputRef,        \* ThreeScene refs, by name
    lastAttackTriggerRef,
    playerAttackEffect,       \* playerAttackEffectActiveRef / ...TimerRef
    playerWalkAnimationTime,
    player,
    enemy,
    activeSmokePuffs,
    camera,                   \* the camera refs and the THREE camera
    animationFrameId,         \* frames requested so far
    scene,                    \* what the scene effect holds until its cleanup
    flashAge,                 \* history: frame time since the flash was lit
    enemyAttackAge,           \* history: frame time since the enemy's attack start
    last                      \* what the last frame or attack effect did

attackButtonVars == <<isAttackButtonPressed, isAttackButtonPressedRef, spaceHeld, spaceAttacks>>

appVars == <<pressedKeys, keyboardMovement, joystickIsDragging, joystickData, attackTrigger,
             attackButtonVars>>

sceneVars == <<lastAttackTriggerRef, playerAttackEffect, playerWalkAnimationTime,
               player, enemy, activeSmokePuffs, animationFrameId, scene, flashAge,
               enemyAttackAge>>

vars == <<appVars, joystickOutputRef, sceneVars, camera, last>>

\* The state after the scene effect has run (Player Setup, Enemy Setup, the
\* camera refs' initial values).
Init ==
    /\ pressedKeys = {}
    /\ keyboardMovement = initialJoystickData
    /\ joystickIsDragging = FALSE
    /\ joystickData = initialJoystickData
    /\ attackTrigger = 0
    /\ isAttackButtonPressed = FALSE
    /\ isAttackButtonPressedRef = FALSE
    /\ spaceHeld = FALSE
    /\ spaceAttacks = 0
    /\ joystickOutputRef = initialJoystickData
    /\ lastAttackTriggerRef = 0
    /\ playerAttackEffect = [active |-> FALSE, timer |-> 0]
    /\ playerWalkAnimationTime = 0
    /\ player = [position |-> blueFountainPosition, rotationY |-> 0,
                 material |-> createCharacterMaterial]
    /\ \E rnd \in RoamRnds :
         enemy = [position |-> redFountainPosition,
                  rotationY |-> PI_M,
                  currentTarget |-> getRandomRoamTarget(rnd.draws, rnd.fallback, redFountainPosition),
                  roamTimer |-> RandomRoamTimer(rnd.timer),
                  isMoving |-> FALSE,
                  walkAnimationTime |-> 0,
                  aiState |-> "ROAMING",
                  attackCooldownTimer |-> 0,
                  isAttackingVisual |-> FALSE,
                  attackEffectTimer |-> 0,
                  material |-> createCharacterMaterial]
    /\ activeSmokePuffs = << >>
    /\ camera = [isDragging |-> FALSE, pointerId |-> 0, lastPointerPos |-> [x |-> 0, y |-> 0],
                 phi |-> (PI_M * 10) \div 35, theta |-> 0,
                 target |-> Point(0, CHARACTER_BASE_Y, 0),
                 position |-> Point(0, 0, 0), heading |-> 0,
                 listeners |-> FALSE, capture |-> 0]
    /\ animationFrameId = 0
    /\ scene = [frameRequested |-> TRUE, resizeListener |-> TRUE,
                pointerdownListener |-> TRUE, refs |-> TRUE]
    /\ flashAge = PLAYER_ATTACK_EFFECT_DURATION
    /\ enemyAttackAge = ENEMY_ATTACK_COOLDOWN
    /\ last = [op |-> "setup"]

\* ----------------------------------------------------------------- animate
\* An Enemy Logic that runs on the position of the frame before.
EnemyReadsPlayerStale(before, after) == before

\* The player position the Enemy Logic reads (const playerPos), given the
\* position before and after this frame's Player Logic.
EnemyReadsPlayer(before, after) == after

\* The position cameraTargetRef is set to at the end of the Player Logic.
CameraFollows(before, after) == after

\* A Camera Update with inertia: the azimuth keeps drifting while dragging.
CameraUpdateDrifting(cam, target) ==
    [cam EXCEPT !.target = target,
                !.theta = IF cam.isDragging THEN @ + 5 ELSE @,
                !.position = CameraEye(target, cam.phi, cam.theta),
                !.heading = cam.theta]

\* cameraTargetRef.set at the end of the Player Logic and the Camera Update:
\* the eye on the sphere around the target, and lookAt.
CameraUpdate(cam, target) ==
    [cam EXCEPT !.target = target,
                !.position = CameraEye(target, cam.phi, cam.theta),
                !.heading = cam.theta]

\* One frame: Player Logic, Enemy Logic, Smoke Puffs Update, Camera Update,
\* Render. Each intermediate value is bound once (\E over a singleton) in the
\* order the frame computes it.
animate(delta) ==
    /\ scene.frameRequested
    /\ animationFrameId < MaxTicks
    /\ \E p \in {PlayerLogic(player, playerWalkAnimationTime, playerAttackEffect,
                              joystickOutputRef, camera.heading, delta)} :
       \E playerPos \in {EnemyReadsPlayer(player.position, p.player.position)} :
       \E e1 \in {EnemyTimers(enemy, delta)} :
       \E d \in {EnemyDecision(e1, playerPos)} :
       \E emitRnd \in (IF d.attack THEN EmitRnds ELSE {NoRnd}),
          roamRnd \in (IF d.forceNewRoamTarget THEN RoamRnds ELSE {NoRnd}) :
       \E e2 \in {EnemyCommit(e1, d, roamRnd)} :
       \E emitted \in {IF d.attack
                        THEN emitSmokePuffs(activeSmokePuffs, e1.position, 8, emitRnd)
                        ELSE activeSmokePuffs} :
       \E followed \in {CameraFollows(player.position, p.player.position)} :
       \E target \in {Point(followed.x, CHARACTER_BASE_Y + 50, followed.z)} :
         /\ player' = p.player
         /\ playerWalkAnimationTime' = p.walk
         /\ playerAttackEffect' = p.fx
         /\ enemy' = EnemyMovement(e2, delta)
         /\ activeSmokePuffs' = UpdateSmokePuffs(emitted, delta)
         /\ camera' = CameraUpdate(camera, target)
         /\ animationFrameId' = animationFrameId + 1
         /\ flashAge' = Min(PLAYER_ATTACK_EFFECT_DURATION, flashAge + delta)
         /\ enemyAttackAge' = IF d.attack THEN 0
                              ELSE Min(ENEMY_ATTACK_COOLDOWN, enemyAttackAge + delta)
         /\ last' = [op |-> "animate", delta |-> delta,
                     joyInput |-> joystickOutputRef,
                     heading |-> camera.heading,
                     theta |-> camera.theta,
                     phi |-> camera.phi,
                     playerBefore |-> player,
                     playerTentative |-> p.tentative,
                     enemyBefore |-> enemy,
                     enemyTimed |-> e1,
                     attackAge |-> Min(ENEMY_ATTACK_COOLDOWN, enemyAttackAge + delta),
                     enemyCommitted |-> e2,
                     newTarget |-> d.newTarget,
                     roamRnd |-> roamRnd,
                     enemyTentative |-> EnemyTentative(e2, delta),
                     playerPos |-> playerPos,
                     tower |-> d.tower,
                     distanceToPlayerSq |-> d.distanceToPlayerSq,
                     attack |-> d.attack,
                     forceNewRoamTarget |-> d.forceNewRoamTarget,
                     emits |-> IF d.attack THEN << e1.position >> ELSE << >>,
                     puffsBefore |-> activeSmokePuffs,
                     puffsEmitted |-> emitted,
                     emitRnd |-> emitRnd,
                     walkBefore |-> playerWalkAnimationTime,
                     cameraBefore |-> camera,
                     renders |-> 1]
    /\ UNCHANGED <<appVars, joystickOutputRef, lastAttackTriggerRef, scene>>

\* --------------------------------------------------- the attack trigger
\* handleAttack: setAttackTrigger(prev => prev + 1)
handleAttack(prev) == prev + 1

\* The Attack button's onMouseDown and onTouchStart.
onAttackButtonDown ==
    /\ attackTrigger < MaxAttackTrigger
    /\ attackTrigger' = handleAttack(attackTrigger)
    /\ isAttackButtonPressed' = TRUE
    /\ UNCHANGED <<pressedKeys, keyboardMovement, joystickIsDragging, joystickData,
                   isAttackButtonPressedRef, spaceHeld, spaceAttacks,
                   joystickOutputRef, sceneVars, camera, last>>

\* The Attack button's onMouseUp, onMouseLeave, onTouchEnd and onTouchCancel.
onAttackButtonUp ==
    /\ isAttackButtonPressed' = FALSE
    /\ UNCHANGED <<pressedKeys, keyboardMovement, joystickIsDragging, joystickData,
                   attackTrigger, isAttackButtonPressedRef, spaceHeld, spaceAttacks,
                   joystickOutputRef, sceneVars, camera, last>>

\* The effect on [isAttackButtonPressed], run after a render.
attackPressedEffect ==
    /\ isAttackButtonPressedRef' = isAttackButtonPressed
    /\ UNCHANGED <<pressedKeys, keyboardMovement, joystickIsDragging, joystickData,
                   attackTrigger, isAttackButtonPressed, spaceHeld, spaceAttacks,
                   joystickOutputRef, sceneVars, camera, last>>

\* handleAttackKeyDown's test of the ref: the press is not taken.
AttackKeyBlocked(pressedRef) == pressedRef

\* handleAttackKeyDown for the spacebar; repeat: the event is an auto-repeat
\* of a key that is down already.
handleAttackKeyDown(repeat) ==
    /\ repeat = spaceHeld
    /\ spaceHeld' = TRUE
    /\ IF AttackKeyBlocked(isAttackButtonPressedRef)
       THEN /\ spaceAttacks' = (IF repeat THEN spaceAttacks ELSE 0)
            /\ UNCHANGED <<attackTrigger, isAttackButtonPressed>>
       ELSE /\ attackTrigger < MaxAttackTrigger
            /\ attackTrigger' = handleAttack(attackTrigger)
            /\ isAttackButtonPressed' = TRUE
            /\ spaceAttacks' = (IF repeat THEN spaceAttacks + 1 ELSE 1)
    /\ last' = [op |-> "attackKeyDown", repeat |-> repeat,
                pressedBefore |-> isAttackButtonPressed,
                refBefore |-> isAttackButtonPressedRef]
    /\ UNCHANGED <<pressedKeys, keyboardMovement, joystickIsDragging, joystickData,
                   isAttackButtonPressedRef, joystickOutputRef, sceneVars, camera>>

\* handleAttackKeyUp for the spacebar.
handleAttackKeyUp ==
    /\ spaceHeld
    /\ spaceHeld' = FALSE
    /\ isAttackButtonPressed' = FALSE
    /\ last' = [op |-> "attackKeyUp"]
    /\ UNCHANGED <<pressedKeys, keyboardMovement, joystickIsDragging, joystickData,
                   attackTrigger, isAttackButtonPressedRef, spaceAttacks,
                   joystickOutputRef, sceneVars, camera>>

\* A guard that also accepts the value observed last.
AttackObservedAgain(trigger, lastObserved) == trigger >= lastObserved

\* The guard of the attackTrigger effect.
AttackObserved(trigger, lastObserved) == trigger > lastObserved

\* The attackTrigger effect of ThreeScene, run with the current counter.
attackTriggerEffect ==
    IF AttackObserved(attackTrigger, lastAttackTriggerRef)
    THEN \E emitRnd \in EmitRnds :
           /\ lastAttackTriggerRef' = attackTrigger
           /\ playerAttackEffect' = [active |-> TRUE, timer |-> 0]
           /\ flashAge' = 0
           /\ UNCHANGED enemyAttackAge
           /\ player' = [player EXCEPT !.material =
                            Material(Tint("ffffff", 300), "original", 700)]
           /\ activeSmokePuffs' = emitSmokePuffs(activeSmokePuffs, player.position, 10, emitRnd)
           /\ last' = [op |-> "attackEffect", fired |-> TRUE,
                       observed |-> attackTrigger, lastObserved |-> lastAttackTriggerRef,
                       fxBefore |-> playerAttackEffect,
                       emits |-> << player.position >>,
                       puffsBefore |-> activeSmokePuffs,
                       emitRnd |-> emitRnd]
           /\ UNCHANGED <<appVars, joystickOutputRef, playerWalkAnimationTime, enemy,
                          animationFrameId, scene, camera>>
    ELSE /\ last' = [op |-> "attackEffect", fired |-> FALSE,
                     observed |-> attackTrigger, lastObserved |-> lastAttackTriggerRef,
                     fxBefore |-> playerAttackEffect,
                     emits |-> << >>,
                     puffsBefore |-> activeSmokePuffs]
         /\ UNCHANGED <<appVars, joystickOutputRef, sceneVars, camera>>

\* ------------------------------------------------------ movement input
\* A state setter of App, the re-render it causes (effectiveJoystickData)
\* and ThreeScene's effect that copies the prop into joystickOutputRef.
Rerender(keyboard, joystick) ==
    joystickOutputRef' = effectiveJoystickData(keyboard, joystick)

handleMovementKeyDown(key) ==
    /\ key \notin pressedKeys
    /\ pressedKeys' = pressedKeys \cup {key}
    /\ keyboardMovement' = updateKeyboardMovementState(pressedKeys')
    /\ Rerender(keyboardMovement', joystickData)
    /\ UNCHANGED <<joystickIsDragging, joystickData, attackTrigger, attackButtonVars, sceneVars, camera, last>>

handleMovementKeyUp(key) ==
    /\ key \in pressedKeys
    /\ pressedKeys' = pressedKeys \ {key}
    /\ keyboardMovement' = updateKeyboardMovementState(pressedKeys')
    /\ Rerender(keyboardMovement', joystickData)
    /\ UNCHANGED <<joystickIsDragging, joystickData, attackTrigger, attackButtonVars, sceneVars, camera, last>>

\* Joystick: handleInteractionStart (mouse down on the base).
handleInteractionStart(px, py) ==
    /\ joystickIsDragging' = TRUE
    /\ joystickData' = updateKnobPosition(px, py)
    /\ Rerender(keyboardMovement, joystickData')
    /\ UNCHANGED <<pressedKeys, keyboardMovement, attackTrigger, attackButtonVars, sceneVars, camera, last>>

\* Joystick: globalMouseUpHandler.
handleInteractionMove(px, py) ==
    /\ joystickIsDragging
    /\ joystickData' = updateKnobPosition(px, py)
    /\ Rerender(keyboardMovement, joystickData')
    /\ UNCHANGED <<pressedKeys, keyboardMovement, joystickIsDragging, attackTrigger, attackButtonVars,
                   sceneVars, camera, last>>

globalMouseUpHandler ==
    /\ joystickIsDragging
    /\ joystickIsDragging' = FALSE
    /\ joystickData' = [x |-> 0, y |-> 0, active |-> FALSE]
    /\ Rerender(keyboardMovement, joystickData')
    /\ UNCHANGED <<pressedKeys, keyboardMovement, attackTrigger, attackButtonVars, sceneVars, camera, last>>

\* ------------------------------------------------------ camera pointer
\* A pointer-down handler that takes over a drag in progress.
OtherPointerDragsNever(cam, id) == FALSE

\* handleCanvasPointerDown's second early return: another pointer drags.
OtherPointerDrags(cam, id) == cam.isDragging /\ id # cam.pointerId

\* handleCanvasPointerDown for the primary button; captureFails: whether
\* canvas.setPointerCapture throws.
handleCanvasPointerDown(id, x, y, captureFails) ==
    /\ scene.pointerdownListener
    /\ IF OtherPointerDrags(camera, id)
       THEN UNCHANGED camera
       ELSE IF captureFails
       THEN camera' = [camera EXCEPT !.lastPointerPos = [x |-> x, y |-> y],
                                     !.isDragging = FALSE, !.pointerId = 0]
       ELSE camera' = [camera EXCEPT !.lastPointerPos = [x |-> x, y |-> y],
                                     !.isDragging = TRUE, !.pointerId = id,
                                     !.capture = id, !.listeners = TRUE]
    /\ last' = [op |-> "pointerdown", id |-> id, x |-> x, y |-> y,
                captureFails |-> captureFails, cameraBefore |-> camera]
    /\ UNCHANGED <<appVars, joystickOutputRef, sceneVars>>

MaxTheta == 1600

\* onWindowPointerMoveCallback's early return.
PointerMoveIgnored(cam, id) == ~cam.isDragging \/ id # cam.pointerId

\* A drag that turns the azimuth the other way.
DragAnglesMirrored(cam, x, y) ==
    LET deltaX == x - cam.lastPointerPos.x
        deltaY == y - cam.lastPointerPos.y
        newPhi == cam.phi - deltaY * 5
        maxPhiForGround == MaxPhiForGround(cam.target.y, cameraRadius)
    IN  [theta |-> cam.theta + deltaX * 5,
         phi |-> Clamp(newPhi, 100, maxPhiForGround)]

\* A drag that leaves the polar angle unclamped.
DragAnglesUnclamped(cam, x, y) ==
    LET deltaX == x - cam.lastPointerPos.x
        deltaY == y - cam.lastPointerPos.y
    IN  [theta |-> cam.theta - deltaX * 5, phi |-> cam.phi - deltaY * 5]

\* The angles onWindowPointerMoveCallback writes: 0.005 rad per pixel, the
\* polar angle clamped to [MIN_PHI_ABS, maxPhiForGround].
DragAngles(cam, x, y) ==
    LET deltaX == x - cam.lastPointerPos.x
        deltaY == y - cam.lastPointerPos.y
        newPhi == cam.phi - deltaY * 5
        maxPhiForGround == MaxPhiForGround(cam.target.y, cameraRadius)
    IN  [theta |-> cam.theta - deltaX * 5,
         phi |-> Clamp(newPhi, 100, maxPhiForGround)]

onWindowPointerMoveCallback(id, x, y) ==
    /\ camera.listeners
    /\ IF PointerMoveIgnored(camera, id)
       THEN UNCHANGED camera
       ELSE \E angles \in {DragAngles(camera, x, y)} :
              /\ Abs(angles.theta) <= MaxTheta
              /\ camera' = [camera EXCEPT
                              !.theta = angles.theta,
                              !.phi = angles.phi,
                              !.lastPointerPos = [x |-> x, y |-> y]]
    /\ last' = [op |-> "pointermove", id |-> id, x |-> x, y |-> y,
                cameraBefore |-> camera]
    /\ UNCHANGED <<appVars, joystickOutputRef, sceneVars>>

\* A pointer-up handler that leaves the window listeners registered.
onWindowPointerUpKeepsListeners(id) ==
    /\ camera.listeners
    /\ IF id = camera.pointerId
       THEN camera' = [camera EXCEPT !.isDragging = FALSE, !.pointerId = 0,
                                     !.capture = 0]
       ELSE UNCHANGED camera
    /\ last' = [op |-> "pointerup", id |-> id, cameraBefore |-> camera]
    /\ UNCHANGED <<appVars, joystickOutputRef, sceneVars>>

onWindowPointerUpOrCancelCallback(id) ==
    /\ camera.listeners
    /\ IF id = camera.pointerId
       THEN camera' = [camera EXCEPT !.isDragging = FALSE, !.pointerId = 0,
                                     !.capture = 0, !.listeners = FALSE]
       ELSE UNCHANGED camera
    /\ last' = [op |-> "pointerup", id |-> id, cameraBefore |-> camera]
    /\ UNCHANGED <<appVars, joystickOutputRef, sceneVars>>

\* The ground limit alone, as a pointer-move computes it from the target
\* height and the orbit radius it reads.
maxPhiForGroundOf(targetYForCamera, radius) ==
    /\ last' = [op |-> "maxPhiForGround", targetYForCamera |-> targetYForCamera,
                radius |-> radius,
                maxPhiForGround |-> MaxPhiForGround(targetYForCamera, radius)]
    /\ UNCHANGED <<appVars, joystickOutputRef, sceneVars, camera>>

\* getRandomRoamTarget alone, as the setup and the commit call it.
roamTargetOf(draws, fallback, currentPos) ==
    /\ last' = [op |-> "roamTarget", draws |-> draws, fallback |-> fallback,
                currentPos |-> currentPos,
                target |-> getRandomRoamTarget(draws, fallback, currentPos)]
    /\ UNCHANGED <<appVars, joystickOutputRef, sceneVars, camera>>

\* ------------------------------------------------------------- cleanup
\* A cleanup that clears the dragging flag one call late.
CleanupCameraLateFlag(cam) ==
    IF cam.pointerId # 0
    THEN [cam EXCEPT !.listeners = FALSE, !.capture = 0, !.pointerId = 0]
    ELSE [cam EXCEPT !.capture = 0, !.isDragging = FALSE]

\* The camera part of the scene effect's cleanup: the window listeners, the
\* pointer id and the dragging flag are reset only when a pointer id is
\* held.  The canvas has left the document by then (removeChild, or the
\* unmount of its parent), so canvas.isConnected is false and the capture
\* is the one the document drops with the canvas.
CleanupCamera(cam) ==
    IF cam.pointerId # 0
    THEN [cam EXCEPT !.listeners = FALSE, !.capture = 0,
                     !.pointerId = 0, !.isDragging = FALSE]
    ELSE [cam EXCEPT !.capture = 0]

\* The cleanup returned by the scene effect.  animationFrameIdRef holds the
\* handle of the request animate made last (the first from the effect
\* itself), so the pending frame is always cancelled.
sceneCleanup ==
    /\ scene' = [frameRequested |-> FALSE, resizeListener |-> FALSE,
                 pointerdownListener |-> FALSE, refs |-> FALSE]
    /\ camera' = CleanupCamera(camera)
    /\ activeSmokePuffs' = << >>
    /\ last' = [op |-> "cleanup", again |-> ~scene.refs,
                cameraBefore |-> camera, sceneBefore |-> scene,
                puffsBefore |-> activeSmokePuffs, frameBefore |-> animationFrameId]
    /\ UNCHANGED <<appVars, joystickOutputRef, lastAttackTriggerRef, playerAttackEffect,
                   playerWalkAnimationTime, player, enemy, animationFrameId, flashAge,
                   enemyAttackAge>>

\* ------------------------------------------------------------ the system
\* The arena: frames of any length while the movement keys go down and up.
Next ==
    \/ \E delta \in Deltas : animate(delta)
    \/ \E key \in MoveKeys : handleMovementKeyDown(key)
    \/ \E key \in MoveKeys : handleMovementKeyUp(key)

Spec == Init /\ [][Next]_vars

\* The attack button: increments of the counter, the effect that observes
\* them, and frames between, while the player may walk up to the enemy.
NextAttack ==
    \/ \E delta \in AttackDeltas : animate(delta)
    \/ onAttackButtonDown
    \/ attackTriggerEffect
    \/ handleMovementKeyDown("s")

SpecAttack == Init /\ [][NextAttack]_vars

\* The two movement sources, merged on every re-render.
NextInput ==
    \/ \E delta \in ShortDeltas : animate(delta)
    \/ \E key \in MoveKeys : handleMovementKeyDown(key)
    \/ \E key \in MoveKeys : handleMovementKeyUp(key)
    \/ \E o \in KnobOffsets : handleInteractionStart(o[1], o[2])
    \/ globalMouseUpHandler

SpecInput == Init /\ [][NextInput]_vars

\* The orbit camera: pointer drags between frames while the player walks.
NextCamera ==
    \/ \E delta \in ShortDeltas : animate(delta)
    \/ handleMovementKeyDown("w")
    \/ \E id \in PointerIds, x \in PointerXs, y \in PointerYs :
         handleCanvasPointerDown(id, x, y, FALSE)
    \/ \E id \in PointerIds, x \in PointerXs, y \in PointerYs :
         onWindowPointerMoveCallback(id, x, y)
    \/ \E id \in PointerIds : onWindowPointerUpOrCancelCallback(id)

SpecCamera == Init /\ [][NextCamera]_vars

MaxOrbitTicks == 1

\* Orbiting the camera: drags in both directions, far enough to reach both
\* limits of the polar angle, around the first frames.
NextOrbit ==
    \/ \E delta \in ShortDeltas : animationFrameId < MaxOrbitTicks /\ animate(delta)
    \/ \E x \in DragXs, y \in DragYs : handleCanvasPointerDown(1, x, y, FALSE)
    \/ \E x \in DragXs, y \in DragYs : onWindowPointerMoveCallback(1, x, y)
    \/ onWindowPointerUpOrCancelCallback(1)

SpecOrbit == Init /\ [][NextOrbit]_vars

\* The enemy on its way between roam targets while the player walks.
NextRoam ==
    \/ \E delta \in RoamDeltas : animate(delta)
    \/ \E key \in MoveKeys : handleMovementKeyDown(key)
    \/ \E key \in MoveKeys : handleMovementKeyUp(key)

SpecRoam == Init /\ [][NextRoam]_vars

\* Roam targets over attempts on both sides of each rejection test, for an
\* enemy on either side of the map.
NextTarget ==
    \E draws \in TargetDraws, fallback \in TargetFallbacks, currentPos \in TargetPositions :
        roamTargetOf(draws, fallback, currentPos)

SpecTarget == Init /\ [][NextTarget]_vars

\* The player's attack flash over frames shorter than its duration.
NextFlash ==
    \/ \E delta \in FlashDeltas : animate(delta)
    \/ onAttackButtonDown
    \/ attackTriggerEffect

SpecFlash == Init /\ [][NextFlash]_vars

\* The spacebar and the Attack button, with the effect that copies the
\* pressed flag into its ref running at any time after a render.
NextAttackKey ==
    \/ \E repeat \in BOOLEAN : handleAttackKeyDown(repeat)
    \/ handleAttackKeyUp
    \/ onAttackButtonDown
    \/ onAttackButtonUp
    \/ attackPressedEffect

SpecAttackKey == Init /\ [][NextAttackKey]_vars

\* The input layer alone: any set of the four keys, and the knob started,
\* moved and released anywhere.
NextPad ==
    \/ \E key \in AllMoveKeys : handleMovementKeyDown(key)
    \/ \E key \in AllMoveKeys : handleMovementKeyUp(key)
    \/ \E o \in PadOffsets : handleInteractionStart(o[1], o[2])
    \/ \E o \in PadOffsets : handleInteractionMove(o[1], o[2])
    \/ globalMouseUpHandler

SpecPad == Init /\ [][NextPad]_vars

\* The ground limit over radii and target heights on both sides of each
\* of its cases.
NextGround ==
    \E t \in GroundHeights, r \in GroundRadii : maxPhiForGroundOf(t, r)

SpecGround == Init /\ [][NextGround]_vars

\* The scene until and after its cleanup: frames, pointer events of which
\* the capture may fail, and the cleanup, any number of times.
NextTeardown ==
    \/ \E delta \in ShortDeltas : animate(delta)
    \/ \E id \in PointerIds, x \in PointerXs, captureFails \in BOOLEAN :
         handleCanvasPointerDown(id, x, 0, captureFails)
    \/ \E id \in PointerIds, x \in PointerXs : onWindowPointerMoveCallback(id, x, 0)
    \/ \E id \in PointerIds : onWindowPointerUpOrCancelCallback(id)
    \/ sceneCleanup

SpecTeardown == Init /\ [][NextTeardown]_vars

\* ================================================================ claims
\* C1: after any sequence of emits (player attacks, enemy attacks) and frames
\* at most NUM_SMOKE_PUFFS = 15 puffs are active, and no pool mesh is in the
\* active list twice.
PoolNeverExceeded ==
    /\ Len(activeSmokePuffs) <= 15
    /\ \A i, j \in 1..Len(activeSmokePuffs) :
         i # j => activeSmokePuffs[i].mesh # activeSmokePuffs[j].mesh

\* A player attack that found puffs of an enemy attack and of an earlier
\* player attack active, and filled the pool.
PoolNeverExceededWitness ==
    /\ last.op = "attackEffect"
    /\ last.fired
    /\ \E i, j \in 1..Len(last.puffsBefore) :
         last.puffsBefore[i].origin # last.puffsBefore[j].origin
    /\ Len(last.puffsBefore) > 7
    /\ Len(activeSmokePuffs) = 15

\* C2: in every reachable state the player and the enemy are inside the
\* arena, |x| + |z| <= 0.98 * mapRadius = 49.
ActorsInsideArena ==
    /\ Abs(player.position.x) + Abs(player.position.z) <= 49 * U
    /\ Abs(enemy.position.x) + Abs(enemy.position.z) <= 49 * U

\* A frame in which the player has left the fountain and the enemy's step
\* would have taken it out of the arena.
ActorsInsideArenaWitness ==
    /\ last.op = "animate"
    /\ player.position # blueFountainPosition
    /\ Abs(last.enemyTentative.x) + Abs(last.enemyTentative.z) > 49 * U

\* C3: the enemy's attackCooldownTimer and roamTimer are never negative, and
\* neither grows across a frame unless the frame resets it (an attack start
\* sets the cooldown to ENEMY_ATTACK_COOLDOWN, a roam retarget sets the roam
\* timer).
EnemyTimersMonotone ==
    /\ enemy.attackCooldownTimer >= 0
    /\ enemy.roamTimer >= 0
    /\ last.op = "animate" =>
         /\ enemy.attackCooldownTimer > last.enemyBefore.attackCooldownTimer
              => last.attack /\ enemy.attackCooldownTimer = 2500
         /\ enemy.roamTimer > last.enemyBefore.roamTimer
              => last.forceNewRoamTarget

\* A frame that ran the cooldown of an earlier attack down without ending
\* it, the roam timer not growing.
EnemyTimersMonotoneWitness ==
    /\ last.op = "animate"
    /\ last.delta > 0
    /\ last.enemyBefore.attackCooldownTimer = 2500
    /\ enemy.attackCooldownTimer > 0
    /\ enemy.attackCooldownTimer < 2500
    /\ enemy.roamTimer <= last.enemyBefore.roamTimer

\* The hostile towers within the avoidance radius (squared distance below
\* 100) of a position, and those of them no other tower is closer than.
TowersInRange(pos) ==
    {i \in 1..Len(blueTowers) :
        DistanceToSquared(pos, blueTowers[i]) < 100 * U * U}

NearestTowers(pos) ==
    {i \in TowersInRange(pos) :
        \A j \in 1..Len(blueTowers) :
            DistanceToSquared(pos, blueTowers[i]) <= DistanceToSquared(pos, blueTowers[j])}

AttackStartsInRange ==
    (/\ last.op = "animate"
     /\ TowersInRange(last.enemyBefore.position) = {}
     /\ DistanceToSquared(last.enemyBefore.position, player.position) < 220 * 220
     /\ last.enemyBefore.attackCooldownTimer - last.delta <= 0
     /\ ~last.enemyBefore.isAttackingVisual) =>
        /\ enemy.aiState = "ATTACKING_PLAYER"
        /\ enemy.isAttackingVisual
        /\ enemy.attackEffectTimer = 0
        /\ enemy.attackCooldownTimer = 2500
        /\ last.emits = << last.enemyBefore.position >>

\* A frame in which the player walked into the range of the roaming enemy.
AttackStartsInRangeWitness ==
    /\ last.op = "animate"
    /\ last.enemyBefore.aiState = "ROAMING"
    /\ last.playerBefore.position # player.position
    /\ DistanceToSquared(last.enemyBefore.position, player.position) < 220 * 220
    /\ enemy.aiState = "ATTACKING_PLAYER"
    /\ Len(last.puffsEmitted) > Len(last.puffsBefore)

\* C6, as stated: the merged input is the joystick's signal whenever the
\* joystick is active, even if the keyboard is active too; the keyboard's
\* signal when only the keyboard is active; the zero input when neither is.
MergedInputAnalogFirst ==
    joystickOutputRef =
        IF joystickData.active THEN joystickData
        ELSE IF keyboardMovement.active THEN keyboardMovement
        ELSE [x |-> 0, y |-> 0, active |-> FALSE]

\* C6, amended: the merged input is the keyboard's signal whenever the
\* keyboard is active, even if the joystick is active too; the joystick's
\* signal when only the joystick is active; the zero input when neither is.
MergedInputKeyboardFirst ==
    joystickOutputRef =
        IF keyboardMovement.active THEN keyboardMovement
        ELSE IF joystickData.active THEN joystickData
        ELSE [x |-> 0, y |-> 0, active |-> FALSE]

\* Both sources active with different signals, the keyboard's handed on.
MergedInputKeyboardFirstWitness ==
    /\ keyboardMovement.active
    /\ joystickData.active
    /\ keyboardMovement # joystickData
    /\ joystickOutputRef = keyboardMovement

\* C7: every run of the attackTrigger effect that observes a counter above
\* the value observed last starts exactly one player attack (the flash active
\* with its timer at 0, one emit at the player's position) and records the
\* value; a run that observes the same value again starts nothing.
AttackFiresOncePerIncrease ==
    last.op = "attackEffect" =>
        IF last.observed > last.lastObserved
        THEN /\ last.fired
             /\ playerAttackEffect = [active |-> TRUE, timer |-> 0]
             /\ last.emits = << player.position >>
             /\ lastAttackTriggerRef = last.observed
        ELSE /\ ~last.fired
             /\ playerAttackEffect = last.fxBefore
             /\ last.emits = << >>
             /\ activeSmokePuffs = last.puffsBefore
             /\ lastAttackTriggerRef = last.lastObserved

\* A run of the effect on a value that has already started an attack.
AttackFiresOncePerIncreaseWitness ==
    /\ last.op = "attackEffect"
    /\ ~last.fired
    /\ last.observed = 1
    /\ lastAttackTriggerRef = 1

\* The clauses of C8 on the order of a frame: the Enemy Logic reads the
\* position this frame's Player Logic produced, the camera eye is on the
\* sphere around a target at that position, and the frame renders once.
FrameOrder ==
    /\ last.playerPos = player.position
    /\ camera.target = Point(player.position.x, CHARACTER_BASE_Y + 50, player.position.z)
    /\ camera.position = CameraEye(camera.target, last.phi, last.theta)
    /\ last.renders = 1

\* C8, as stated: player update, enemy AI on this frame's player position,
\* particle update, camera eye around this frame's player position, one
\* render; and no step uses a position or a camera state left over from the
\* frame before (the Player Logic moves along the camera's current azimuth).
FrameUsesNothingStale ==
    last.op = "animate" => FrameOrder /\ last.heading = last.theta

\* C8, amended: player update, enemy AI on this frame's player position,
\* particle update, camera eye around this frame's player position, one
\* render; no step uses a position left over from the frame before, while
\* the Player Logic takes its directions from the orientation the camera
\* was given by the Camera Update of the frame before.
FrameOrderHolds ==
    last.op = "animate" => FrameOrder

\* A frame after a drag of the camera in which the player moved.
FrameOrderHoldsWitness ==
    /\ last.op = "animate"
    /\ last.heading # last.theta
    /\ last.playerBefore.position # player.position

\* The enemy's attack visual ran out in this frame: it was playing at the
\* start and the elapsed times since it started sum to 0.45 s or more.
VisualRanOut ==
    /\ last.op = "animate"
    /\ last.enemyBefore.isAttackingVisual
    /\ last.enemyBefore.attackEffectTimer + last.delta >= 450

\* The material of a character at rest.
Baseline == [color |-> originalColor, emissive |-> "000000", emissiveIntensity |-> 0]

\* C9, as stated: once the elapsed times since the visual started sum to
\* 0.45 s the flag is cleared and the material is at baseline, and nothing
\* restarts or extends the visual before it ends.
VisualEndsCleared ==
    /\ VisualRanOut => ~enemy.isAttackingVisual /\ enemy.material = Baseline
    /\ (last.op = "animate" /\ last.enemyBefore.isAttackingVisual /\ ~VisualRanOut) =>
          /\ ~last.attack
          /\ enemy.isAttackingVisual
          /\ enemy.attackEffectTimer = last.enemyBefore.attackEffectTimer + last.delta

\* C9, amended: once the elapsed times since the visual started sum to
\* 0.45 s the material is at baseline and the flag is cleared, unless the same
\* frame, the cooldown having run out in it too, starts the next attack,
\* which sets the flag again with the timer at 0; nothing restarts or extends
\* the visual before it ends.
VisualEndsAtBaseline ==
    /\ VisualRanOut =>
          /\ enemy.material = Baseline
          /\ IF last.attack
             THEN /\ last.enemyBefore.attackCooldownTimer - last.delta <= 0
                  /\ enemy.isAttackingVisual
                  /\ enemy.attackEffectTimer = 0
             ELSE ~enemy.isAttackingVisual
    /\ (last.op = "animate" /\ last.enemyBefore.isAttackingVisual /\ ~VisualRanOut) =>
          /\ ~last.attack
          /\ enemy.isAttackingVisual
          /\ enemy.attackEffectTimer = last.enemyBefore.attackEffectTimer + last.delta

\* A visual that was held over one frame and ran out in the next.
VisualEndsAtBaselineWitness ==
    /\ VisualRanOut
    /\ last.enemyBefore.attackEffectTimer > 0
    /\ last.enemyBefore.material # Baseline
    /\ ~enemy.isAttackingVisual

\* C10: in a frame where the tentative position of the player or of the
\* enemy is out of the arena (|x| + |z| > 49), x and z after the frame are
\* those before it; the facing may still change.
RollbackIsAtomic ==
    last.op = "animate" =>
        /\ Abs(last.playerTentative.x) + Abs(last.playerTentative.z) > 49 * U
             => player.position = last.playerBefore.position
        /\ Abs(last.enemyTentative.x) + Abs(last.enemyTentative.z) > 49 * U
             => enemy.position = last.enemyBefore.position

\* A frame that rolled the player back and turned it.
RollbackIsAtomicWitness ==
    /\ last.op = "animate"
    /\ Abs(last.playerTentative.x) + Abs(last.playerTentative.z) > 49 * U
    /\ last.playerTentative # last.playerBefore.position
    /\ player.position = last.playerBefore.position
    /\ player.rotationY # last.playerBefore.rotationY

\* The puffs an emit with Math.random() = r/1000 and a multiplier of m tenths
\* asks for, floor(b * m) with b = 5 + floor(4 * r / 1000) in 5..8, cut to
\* the pool meshes that are free among `before`.
EmitShare(r, m, before) ==
    LET b == 5 + ((4 * r) \div 1000)
        asked == (b * m) \div 10
        free == 15 - Len(before)
    IN  IF asked <= free THEN asked ELSE free

\* C11: an emit with base count b in 5..8 and multiplier m activates exactly
\* min(floor(b * m), free pool meshes) puffs and leaves the puffs that were
\* active as they are; with all 15 active it activates none; nothing is
\* queued: the frame's update adds no puff.
EmitTakesFreeShare ==
    /\ (last.op = "attackEffect" /\ last.fired) =>
          /\ Len(activeSmokePuffs)
                = Len(last.puffsBefore) + EmitShare(last.emitRnd.count, 10, last.puffsBefore)
          /\ SubSeq(activeSmokePuffs, 1, Len(last.puffsBefore)) = last.puffsBefore
    /\ (last.op = "animate" /\ last.attack) =>
          /\ Len(last.puffsEmitted)
                = Len(last.puffsBefore) + EmitShare(last.emitRnd.count, 8, last.puffsBefore)
          /\ SubSeq(last.puffsEmitted, 1, Len(last.puffsBefore)) = last.puffsBefore
    /\ last.op = "animate" => Len(activeSmokePuffs) <= Len(last.puffsEmitted)

\* An enemy attack that asked for puffs with all 15 active and got none.
EmitTakesFreeShareWitness ==
    /\ last.op = "animate"
    /\ last.attack
    /\ Len(last.puffsBefore) = 15
    /\ last.puffsEmitted = last.puffsBefore

\* One milliradian of polar angle at the camera radius, in hundredths: the
\* step of the eye height between two neighbouring polar angles.
EyeStep == (cameraRadius \div K) + 1

EyeHeight == camera.target.y + Div(cameraRadius * Cos(camera.phi), K)

DragTurnsCamera ==
    (/\ last.op = "pointermove"
     /\ last.cameraBefore.isDragging
     /\ last.id = last.cameraBefore.pointerId) =>
        LET before == last.cameraBefore
            dx == last.x - before.lastPointerPos.x
            dy == last.y - before.lastPointerPos.y
        IN  /\ camera.theta = before.theta - dx * 5
            /\ camera.phi = Clamp(before.phi - dy * 5, 100,
                                  MaxPhiForGround(camera.target.y, cameraRadius))
            /\ camera.lastPointerPos = [x |-> last.x, y |-> last.y]
            /\ dy = 0 => camera.phi = before.phi

\* A drag by (100, 0): the azimuth went down by 0.5, the polar angle stayed.
DragTurnsCameraWitness ==
    /\ last.op = "pointermove"
    /\ last.cameraBefore.isDragging
    /\ last.id = last.cameraBefore.pointerId
    /\ last.x - last.cameraBefore.lastPointerPos.x = 100
    /\ last.y = last.cameraBefore.lastPointerPos.y
    /\ camera.theta = last.cameraBefore.theta - 500
    /\ camera.phi = last.cameraBefore.phi

\* C14: events that do not belong to the captured pointer have no effect: a
\* pointer-down with another id during a drag, and a move, up or cancel
\* whose id is not the captured one (also when none is captured) leave the
\* captured id, the dragging flag and both angles as they were.
ForeignPointerIgnored ==
    /\ (/\ last.op = "pointerdown"
        /\ last.cameraBefore.isDragging
        /\ last.id # last.cameraBefore.pointerId) => camera = last.cameraBefore
    /\ (/\ last.op \in {"pointermove", "pointerup"}
        /\ last.id # last.cameraBefore.pointerId) => camera = last.cameraBefore

\* A second pointer went down during the drag of a turned camera, in
\* another place, and the drag went on as it was.
ForeignPointerIgnoredWitness ==
    /\ last.op = "pointerdown"
    /\ last.cameraBefore.isDragging
    /\ last.id # last.cameraBefore.pointerId
    /\ last.x # last.cameraBefore.lastPointerPos.x
    /\ camera.theta # 0
    /\ camera.isDragging

\* C15: a second cleanup leaves the whole state as the first left it: the
\* stopped loop, the dragging flag, the captured id, the registered
\* listeners, the actor and pool references.
CleanupIdempotent ==
    (last.op = "cleanup" /\ last.again) =>
        /\ camera = last.cameraBefore
        /\ scene = last.sceneBefore
        /\ activeSmokePuffs = last.puffsBefore
        /\ animationFrameId = last.frameBefore

\* A second cleanup of a scene that was stopped during a drag.
CleanupIdempotentWitness ==
    /\ last.op = "cleanup"
    /\ last.again
    /\ ~scene.frameRequested
    /\ ~camera.isDragging
    /\ camera.theta # 0

\* C16: after the cleanup, whether or not a drag was in progress, no frame
\* is requested, the dragging flag is false, no pointer is captured, and
\* the pointer-down, move, up, cancel and resize listeners are all removed.
CleanupRemovesAll ==
    last.op = "cleanup" =>
        /\ ~scene.frameRequested
        /\ ~camera.isDragging
        /\ camera.pointerId = 0
        /\ camera.capture = 0
        /\ ~scene.pointerdownListener
        /\ ~scene.resizeListener
        /\ ~camera.listeners

OrbitFields(cam) == <<cam.isDragging, cam.pointerId, cam.theta, cam.phi>>

\* C19: a frame never changes the dragging flag, the captured id, the
\* azimuth or the polar angle (the radius is never assigned); these change
\* only in the pointer handlers and the cleanup.
FrameLeavesOrbit ==
    [][/\ last'.op = "animate" => OrbitFields(camera') = OrbitFields(camera)
       /\ OrbitFields(camera') # OrbitFields(camera) =>
             last'.op \in {"pointerdown", "pointermove", "pointerup", "cleanup"}]_vars

\* A frame in the middle of a drag that had turned the camera: the target
\* moved, the drag and the angles are as before.
FrameLeavesOrbitWitness ==
    /\ last.op = "animate"
    /\ last.cameraBefore.isDragging
    /\ last.cameraBefore.theta # 0
    /\ camera.target # last.cameraBefore.target
    /\ OrbitFields(camera) = OrbitFields(last.cameraBefore)

\* C17: with idle input a frame of any duration, at any camera heading,
\* leaves the player's position and facing as they were and the walk phase
\* at 0; the walk phase grows only in frames with active input.
IdleLeavesPlayer ==
    last.op = "animate" =>
        /\ ~last.joyInput.active =>
              /\ player.position = last.playerBefore.position
              /\ player.rotationY = last.playerBefore.rotationY
              /\ playerWalkAnimationTime = 0
        /\ playerWalkAnimationTime > last.walkBefore => last.joyInput.active

\* An idle frame after walking: the player had turned and moved, the walk
\* phase had grown, and the frame reset the phase and left the rest.
IdleLeavesPlayerWitness ==
    /\ last.op = "animate"
    /\ ~last.joyInput.active
    /\ last.delta > 0
    /\ last.walkBefore > 0
    /\ player.rotationY # 0
    /\ player.position # blueFountainPosition
    /\ playerWalkAnimationTime = 0

GroundRise == MIN_CAMERA_Y_POSITION - last.targetYForCamera

\* C18 as stated: the arccosine of an in-range ratio is clamped into
\* [0.1, pi - 0.1]; a ratio out of range on either side, or a radius of
\* (near) zero, gives pi/2.
GroundLimitFallsBackToHalfPi ==
    last.op = "maxPhiForGround" =>
        IF last.radius > 0 /\ GroundRise >= -last.radius /\ GroundRise <= last.radius
        THEN last.maxPhiForGround
                = Clamp(Acos(Div(GroundRise * K, last.radius)), 100, PI_M - 100)
        ELSE last.maxPhiForGround = PI_M \div 2

\* C18, amended: the limit is defined for every radius and target height;
\* an in-range ratio gives min(pi - 0.1, acos(ratio)), which may lie below
\* 0.1; a ratio above 1 gives pi/2; a ratio below -1, or a radius of (near)
\* zero, gives pi - 0.1.
GroundLimitByCase ==
    last.op = "maxPhiForGround" =>
        /\ last.maxPhiForGround \in 0..(PI_M - 100)
        /\ last.radius = 0 => last.maxPhiForGround = PI_M - 100
        /\ (last.radius > 0 /\ GroundRise > last.radius) =>
              last.maxPhiForGround = PI_M \div 2
        /\ (last.radius > 0 /\ GroundRise < -last.radius) =>
              last.maxPhiForGround = PI_M - 100
        /\ (last.radius > 0 /\ GroundRise >= -last.radius /\ GroundRise <= last.radius) =>
              \E a \in {Acos(Div(GroundRise * K, last.radius))} :
                 last.maxPhiForGround = IF a < PI_M - 100 THEN a ELSE PI_M - 100

\* A target too high for its radius (ratio below -1): the limit is pi - 0.1.
GroundLimitByCaseWitness ==
    /\ last.op = "maxPhiForGround"
    /\ last.radius > 0
    /\ GroundRise < -last.radius
    /\ last.maxPhiForGround = PI_M - 100

InUnitDisc(d) ==
    /\ d.x >= -K /\ d.x <= K
    /\ d.y >= -K /\ d.y <= K
    /\ d.x * d.x + d.y * d.y <= K * K

Wrapped(a) == a > -PI_M /\ a <= PI_M

\* C21: after every frame the facing angle rotationY of the player and of
\* the enemy lies in (-pi, pi], whatever the target headings were.
FacingWrapped ==
    last.op = "animate" => Wrapped(player.rotationY) /\ Wrapped(enemy.rotationY)

\* The frame's timer step ended the attack visual.
VisualExpired ==
    /\ last.op = "animate"
    /\ last.enemyBefore.isAttackingVisual
    /\ ~last.enemyTimed.isAttackingVisual

FreshRoamTarget ==
    /\ last.forceNewRoamTarget
    /\ last.enemyCommitted.currentTarget
          = getRandomRoamTarget(last.roamRnd.draws, last.roamRnd.fallback,
                                last.enemyBefore.position)

\* What the frame that ends the visual leaves when it starts no attack:
\* the chase of the player's position, or roaming with a fresh target.
Reevaluated ==
    IF last.distanceToPlayerSq < ENEMY_DETECTION_RANGE_SQR
    THEN enemy.aiState = "CHASING_PLAYER" /\ enemy.currentTarget = last.playerPos
    ELSE enemy.aiState = "ROAMING" /\ FreshRoamTarget

\* C22 as stated: the frame in which the attack-visual timer reaches its
\* duration clears the visual flag and ends in CHASING_PLAYER with the
\* player's position as target if the player is detected, else in ROAMING
\* with a fresh roam target; no frame ends in ATTACKING_PLAYER with the flag
\* cleared.
VisualEndReevaluates ==
    /\ VisualExpired => ~enemy.isAttackingVisual /\ Reevaluated
    /\ (last.op = "animate" /\ enemy.aiState = "ATTACKING_PLAYER") => enemy.isAttackingVisual

\* C22, amended: as stated, unless the frame that ends the visual also runs
\* the cooldown out with the player in attack range: it then starts the next
\* attack and ends in ATTACKING_PLAYER with the flag set and the player's
\* position as target.
VisualEndReevaluatesOrAttacks ==
    /\ (VisualExpired /\ ~last.attack) => ~enemy.isAttackingVisual /\ Reevaluated
    /\ (VisualExpired /\ last.attack) =>
          /\ last.enemyBefore.attackCooldownTimer - last.delta <= 0
          /\ last.distanceToPlayerSq < ENEMY_ATTACK_RANGE_SQR
          /\ enemy.aiState = "ATTACKING_PLAYER"
          /\ enemy.isAttackingVisual
          /\ enemy.currentTarget = last.playerPos
    /\ (last.op = "animate" /\ enemy.aiState = "ATTACKING_PLAYER") => enemy.isAttackingVisual

\* The visual ended in a frame in which the player had walked out of the
\* detection range: the enemy roams towards a fresh target.
VisualEndReevaluatesOrAttacksWitness ==
    /\ VisualExpired
    /\ ~last.attack
    /\ last.distanceToPlayerSq >= ENEMY_DETECTION_RANGE_SQR
    /\ enemy.aiState = "ROAMING"
    /\ FreshRoamTarget

\* C23: the frame that starts an enemy attack sets currentTarget to the
\* player's position of that frame, whatever the enemy's state was before,
\* and every later frame in which the visual is still playing leaves
\* currentTarget as it is.
AttackFreezesTarget ==
    /\ (last.op = "animate" /\ last.attack) => enemy.currentTarget = last.playerPos
    /\ (/\ last.op = "animate"
        /\ ~last.attack
        /\ last.enemyBefore.isAttackingVisual
        /\ enemy.isAttackingVisual) => enemy.currentTarget = last.enemyBefore.currentTarget

\* C24: a frame with no tower in avoidance range, no attack started, the
\* enemy not in ATTACKING_PLAYER and the player within detection range ends
\* in CHASING_PLAYER; and after every frame that ends in CHASING_PLAYER the
\* target is the player's position as that frame updated it.
ChaseTracksPlayer ==
    last.op = "animate" =>
        /\ (/\ last.tower = 0
            /\ ~last.attack
            /\ last.enemyBefore.aiState # "ATTACKING_PLAYER"
            /\ last.distanceToPlayerSq < ENEMY_DETECTION_RANGE_SQR) =>
               enemy.aiState = "CHASING_PLAYER"
        /\ enemy.aiState = "CHASING_PLAYER" =>
               enemy.currentTarget = last.playerPos /\ last.playerPos = player.position

\* A frame with no tower in range, no attack started and the player not
\* detected.
NothingToDo ==
    /\ last.op = "animate"
    /\ last.tower = 0
    /\ ~last.attack
    /\ last.distanceToPlayerSq >= ENEMY_DETECTION_RANGE_SQR

\* The commit drew a fresh roam target and a roam timer in [4, 8] s.
Redrawn ==
    /\ FreshRoamTarget
    /\ enemy.currentTarget = last.enemyCommitted.currentTarget
    /\ last.enemyCommitted.roamTimer >= 4000
    /\ last.enemyCommitted.roamTimer <= 8000

RoamDue ==
    \/ last.enemyTimed.roamTimer <= 0
    \/ DistanceToSquared(last.enemyBefore.position, last.enemyBefore.currentTarget) < 50 * 50

\* C25: in a frame with no tower in range and no attack or chase condition
\* met, an enemy that was chasing becomes ROAMING with a fresh random target
\* and a roam timer reset into [4, 8] s; so does a roaming enemy whose roam
\* timer has run out or that is within 0.5 of its target; a roaming enemy
\* with time left and farther away keeps its target and its timer runs on.
RoamRetargets ==
    /\ (NothingToDo /\ last.enemyBefore.aiState = "CHASING_PLAYER") =>
          enemy.aiState = "ROAMING" /\ Redrawn
    /\ (NothingToDo /\ last.enemyBefore.aiState = "ROAMING" /\ RoamDue) =>
          enemy.aiState = "ROAMING" /\ Redrawn
    /\ (NothingToDo /\ last.enemyBefore.aiState = "ROAMING" /\ ~RoamDue) =>
          /\ enemy.aiState = "ROAMING"
          /\ ~last.forceNewRoamTarget
          /\ enemy.currentTarget = last.enemyBefore.currentTarget
          /\ last.enemyCommitted.roamTimer = last.enemyTimed.roamTimer

\* The player walked out of the detection range of the chasing enemy, which
\* went back to roaming with a new target.
RoamRetargetsWitness ==
    /\ NothingToDo
    /\ last.enemyBefore.aiState = "CHASING_PLAYER"
    /\ enemy.aiState = "ROAMING"
    /\ Redrawn
    /\ enemy.currentTarget # last.enemyBefore.currentTarget

WasFleeing == last.op = "animate" /\ last.enemyBefore.aiState = "FLEEING_TOWER"

RoamTargetsInArena ==
    (\/ last.op = "setup"
     \/ last.op = "animate" /\ last.forceNewRoamTarget) =>
        Abs(enemy.currentTarget.x) + Abs(enemy.currentTarget.z) <= ArenaLimit

\* One of the ten attempts was accepted: the target is not the fallback's.
AttemptAccepted ==
    /\ last.op = "roamTarget"
    /\ \E i \in 1..10 :
         /\ last.target = Vec(RoamCoordinate(last.draws[i][1], (mapRadius * 95) \div 100),
                              RoamCoordinate(last.draws[i][2], (mapRadius * 95) \div 100))
         /\ ~RoamAttemptRejected(last.target, last.currentPos)

OutsideBlue == DistanceToSquared(last.target, blueFountainPosition) >= 1500 * 1500

OutsideRed == DistanceToSquared(last.target, redFountainPosition) >= 1000 * 1000

AttackVisualHoldsEnemy ==
    (last.op = "animate" /\ enemy.isAttackingVisual) =>
        /\ enemy.position = last.enemyBefore.position
        /\ enemy.rotationY = last.enemyBefore.rotationY

\* A frame of positive length within a running visual, in which the player
\* moved.
AttackVisualHoldsEnemyWitness ==
    /\ last.op = "animate"
    /\ last.delta > 0
    /\ last.enemyBefore.isAttackingVisual
    /\ enemy.isAttackingVisual
    /\ player.position # last.playerBefore.position

\* C30: the enemy's walk-bob phase advances only in frames in which the
\* enemy's position changes.
WalkPhaseFollowsTranslation ==
    (last.op = "animate" /\ enemy.walkAnimationTime > last.enemyBefore.walkAnimationTime) =>
        enemy.position # last.enemyBefore.position

\* A facing step from `before` to `after` that does not pass `target`: it has
\* the sign of the shortest angular difference and at most its magnitude.
StepWithin(before, after, target) ==
    LET d == shortestAngleDiff(before, target)
        step == after - before
    IN  step * d >= 0 /\ Abs(step) <= Abs(d)

PlayerStepWithin ==
    StepWithin(last.playerBefore.rotationY, player.rotationY,
               PlayerMove(last.joyInput, last.playerBefore.rotationY, last.heading).targetRotation)

\* The enemy's target heading in a frame whose movement block turned it.
EnemyTurned ==
    /\ last.enemyCommitted.aiState # "ATTACKING_PLAYER" \/ ~last.enemyCommitted.isAttackingVisual
    /\ DistanceToSquared(last.enemyCommitted.currentTarget, last.enemyCommitted.position) > 100

EnemyTargetRotation ==
    LET dir == Normalize(Vec(last.enemyCommitted.currentTarget.x - last.enemyCommitted.position.x,
                             last.enemyCommitted.currentTarget.z - last.enemyCommitted.position.z))
    IN  Atan2(dir.x, dir.z)

EnemyStepWithin ==
    EnemyTurned => StepWithin(last.enemyBefore.rotationY, enemy.rotationY, EnemyTargetRotation)

\* C31: in one frame the facing of the player and of the enemy never moves
\* past its target heading, whatever the frame's elapsed time.
FacingNeverOvershoots ==
    last.op = "animate" => PlayerStepWithin /\ EnemyStepWithin

\* C32: once the frames since the attack effect lit the flash total at least
\* PLAYER_ATTACK_EFFECT_DURATION, the flash is inactive, its timer is 0 and
\* the player's material is back at colour originalColor, emissive black,
\* intensity 0.
FlashExpires ==
    (lastAttackTriggerRef > 0 /\ flashAge >= PLAYER_ATTACK_EFFECT_DURATION) =>
        /\ playerAttackEffect = [active |-> FALSE, timer |-> 0]
        /\ player.material = Material(originalColor, "000000", 0)

\* A frame shorter than the duration that ended a lit flash.
FlashExpiresWitness ==
    /\ last.op = "animate"
    /\ last.delta < PLAYER_ATTACK_EFFECT_DURATION
    /\ last.playerBefore.material = Material(Tint("ffffff", 300), "original", 700)
    /\ lastAttackTriggerRef > 0
    /\ flashAge >= PLAYER_ATTACK_EFFECT_DURATION

\* C33: a pointer-up or pointer-cancel for the pointer id the camera holds
\* ends the drag: the dragging flag is false, the id is null, the capture is
\* released and the window listeners are removed; a pointer-move delivered
\* while no drag is in progress leaves the camera angles as they were.
PointerUpEndsDrag ==
    /\ (last.op = "pointerup" /\ last.id = last.cameraBefore.pointerId) =>
          /\ ~camera.isDragging
          /\ camera.pointerId = 0
          /\ camera.capture = 0
          /\ ~camera.listeners
    /\ (last.op = "pointermove" /\ ~last.cameraBefore.isDragging) =>
          /\ camera.theta = last.cameraBefore.theta
          /\ camera.phi = last.cameraBefore.phi

\* The pointer-up of a drag that had turned the camera.
PointerUpEndsDragWitness ==
    /\ last.op = "pointerup"
    /\ last.id = last.cameraBefore.pointerId
    /\ last.cameraBefore.isDragging
    /\ last.cameraBefore.listeners
    /\ last.cameraBefore.theta # 0

\* C34: every active puff's opacity lies between 0 and the start opacity and
\* its scale between the start scale and the end scale (its elapsed fraction
\* is within [0, 1]).
PuffFadeWithinRange ==
    \A i \in 1..Len(activeSmokePuffs) :
        /\ activeSmokePuffs[i].opacity >= 0
        /\ activeSmokePuffs[i].opacity <= SMOKE_PUFF_START_OPACITY
        /\ activeSmokePuffs[i].scale >= SMOKE_PUFF_START_SCALE
        /\ activeSmokePuffs[i].scale <= SMOKE_PUFF_END_SCALE

\* The lifetime of the active puff on `mesh`.
RemainingOf(active, mesh) ==
    active[CHOOSE i \in 1..Len(active) : active[i].mesh = mesh].lifetime

\* C35: a frame takes its elapsed time off every active puff's lifetime; a
\* puff whose lifetime is then <= 0 has left the active list (and is free for
\* a later emit), a puff whose lifetime is still positive stays with that
\* lifetime, and the frame adds no puff of its own to those it updates.
PuffsAgeOut ==
    last.op = "animate" =>
        /\ \A i \in 1..Len(last.puffsEmitted) :
             LET puff == last.puffsEmitted[i]
             IN  IF puff.lifetime - last.delta <= 0
                 THEN ~IsActive(activeSmokePuffs, puff.mesh)
                 ELSE /\ IsActive(activeSmokePuffs, puff.mesh)
                      /\ RemainingOf(activeSmokePuffs, puff.mesh) = puff.lifetime - last.delta
        /\ \A j \in 1..Len(activeSmokePuffs) :
             IsActive(last.puffsEmitted, activeSmokePuffs[j].mesh)

\* A frame shorter than any seed lifetime that removed an aged puff and kept
\* a younger one.
PuffsAgeOutWitness ==
    /\ last.op = "animate"
    /\ last.delta > 0
    /\ last.delta < 900
    /\ activeSmokePuffs # << >>
    /\ \E i \in 1..Len(last.puffsEmitted) :
         /\ last.puffsEmitted[i].lifetime <= last.delta
         /\ ~IsActive(activeSmokePuffs, last.puffsEmitted[i].mesh)

\* C36: the enemy's attack visual is active exactly when its state is
\* ATTACKING_PLAYER, and no tower is within avoidance range of the enemy
\* while the visual plays.
VisualIffAttacking ==
    /\ enemy.isAttackingVisual <=> enemy.aiState = "ATTACKING_PLAYER"
    /\ enemy.isAttackingVisual => TowerThreat(enemy.position) = 0

\* The frame that ends a visual and leaves ATTACKING_PLAYER with it.
VisualIffAttackingWitness ==
    /\ last.op = "animate"
    /\ last.enemyBefore.isAttackingVisual
    /\ last.enemyBefore.aiState = "ATTACKING_PLAYER"
    /\ ~enemy.isAttackingVisual
    /\ enemy.aiState # "ATTACKING_PLAYER"

\* C37: when the enemy starts an attack, the frames since its previous attack
\* start (this frame included) total at least ENEMY_ATTACK_COOLDOWN, and the
\* cooldown and the visual, as this frame's timer step left them, are 0 and
\* inactive.
AttacksSpacedByCooldown ==
    (last.op = "animate" /\ last.attack) =>
        /\ last.attackAge >= ENEMY_ATTACK_COOLDOWN
        /\ last.enemyTimed.attackCooldownTimer <= 0
        /\ ~last.enemyTimed.isAttackingVisual

\* An attack started in a frame that ran out a cooldown already partly spent
\* in earlier frames.
AttacksSpacedByCooldownWitness ==
    /\ last.op = "animate"
    /\ last.attack
    /\ last.enemyBefore.attackCooldownTimer > 0
    /\ last.enemyBefore.attackCooldownTimer < ENEMY_ATTACK_COOLDOWN

\* C38: after every camera pointer handler and after the cleanup, the
\* dragging flag is set exactly when a pointer id is held, and the window
\* listeners are registered exactly when a drag is in progress.
DragStateConsistent ==
    last.op \in {"pointerdown", "pointermove", "pointerup", "cleanup"} =>
        /\ camera.isDragging <=> camera.pointerId # 0
        /\ camera.listeners <=> camera.isDragging

\* C39: while the spacebar is down, the keydown events of that press (the
\* first and its auto-repeats) have incremented the attack trigger exactly
\* once, whatever the renders and the Attack button's events in between.
SpacePressAttacksOnce ==
    spaceHeld => spaceAttacks = 1
====
